---- MODULE Spec2Model ----
(***************************************************************************)
(* Model of the per-feed metrics aggregation engine of turbostream-tui     *)
(* (package metrics: slidingWindow, payloadSampler, tokenSampler,          *)
(* historySampler and Collector).                                          *)
(*                                                                         *)
(* Time is counted in whole seconds.  A float64 is modelled as a rational  *)
(* <<numerator, denominator>> with a non-negative denominator; a zero      *)
(* denominator stands for the NaN / Inf results of a division by zero.     *)
(***************************************************************************)
EXTENDS Integers, Sequences, FiniteSets, TLC

VARIABLES
    now,               \* the wall clock read by time.Now(), in seconds
    feedMetrics,       \* Collector.feedMetrics     map[string]*FeedMetrics
    messageWindows,    \* Collector.messageWindows  map[string]*slidingWindow
    byteWindows,       \* Collector.byteWindows     map[string]*slidingWindow
    payloadSamples,    \* Collector.payloadSamples  map[string]*payloadSampler
    llmTokenSamples,   \* Collector.llmTokenSamples map[string]*tokenSampler
    startTimes,        \* Collector.startTimes      map[string]time.Time
    lastMsgTimes,      \* Collector.lastMsgTimes    map[string]time.Time
    msgRateHistory,    \* Collector.msgRateHistory  map[string]*historySampler
    cacheBytesHist,    \* Collector.cacheBytesHist  map[string]*historySampler
    genTimeHistory,    \* Collector.genTimeHistory  map[string]*historySampler
    heap,              \* backing arrays of the []float64 slices
    dashboardMetrics,  \* the Feeds of the last DashboardMetrics returned
    feedResult,        \* the last *FeedMetrics returned by GetFeedMetrics
    lastSnapshot,      \* per feed, the last snapshot handed to a reader
    recorded,          \* per feed, every RecordMessage call made: (time, size)
    requested,         \* per feed, every tokenSampler.Add call made: (time, arguments)
    added,             \* per history sampler, every value passed to its Add
    pc,                \* per goroutine, where it is in the call it runs
    call,              \* per goroutine, the call it runs
    local,             \* per goroutine, the local variables of that call
    mu,                \* Collector.mu (sync.RWMutex)
    smu,               \* the sync.Mutex of every sampler
    Entries,           \* FeedDataState.Entries: the entries shown per feed
    evicted,           \* what the last AddEntry call returned
    addCalls,          \* how many AddEntry calls have been made
    Feeds,             \* FeedDataState.Feeds: the feeds last loaded
    wsClient,          \* Model.wsClient: TRUE when it is not nil
    statuses,          \* per feed, the RecordWSStatus calls made so far, summed up
    samplerResult,     \* what the last sampler method called directly returned
    wire,              \* the envelopes the server has written and readLoop has not read
    ctx,               \* Client.ctx: "none" before Dial, "open", "done" once reads fail
    incoming,          \* Client.incoming: the messages in the channel's buffer
    chanClosed,        \* close(c.incoming) has been executed
    readLoop,          \* the readLoop goroutine: where it is and the message it holds
    waiting,           \* number of ListenCmd commands blocked in "<-c.incoming"
    teaMsgs,           \* what commands have returned and Update has not been given
    sending,           \* the queries of the commands that have yet to call SendLLMQuery
    timers,            \* number of tea.Tick commands that will return an AITickMsg
    given,             \* the channel messages Update was given: their places in the channel
    ai,                \* AIState, with FeedDataState.Subscriptions and SelectedFeed
    queries,           \* the queries the server has received and not answered
    lastOp,            \* the call that produced this state
    ops,               \* number of ingestion and read calls made
    inits,             \* number of InitFeed calls made
    ticks              \* number of clock advances made

vars == <<now, feedMetrics, messageWindows, byteWindows, payloadSamples,
          llmTokenSamples, startTimes, lastMsgTimes, msgRateHistory,
          cacheBytesHist, genTimeHistory, heap, dashboardMetrics, feedResult,
          lastSnapshot, recorded, requested, added, pc, call, local, mu, smu,
          Entries, evicted, addCalls, Feeds, wsClient, statuses, samplerResult, wire, ctx,
          incoming, chanClosed, readLoop, waiting, teaMsgs, sending, timers, given, ai,
          queries, lastOp, ops,
          inits, ticks>>

goroutines == <<pc, call, local, mu, smu>>

app == <<Entries, evicted, addCalls, Feeds, wsClient>>

\* the Bubble Tea runtime and the goroutines of the WebSocket client
runtime == <<wire, incoming, chanClosed, readLoop, waiting, teaMsgs, sending, timers,
             given, queries>>

pipeline == <<ctx, ai, wire, incoming, chanClosed, readLoop, waiting, teaMsgs, sending,
              timers, given, queries>>

collector == <<feedMetrics, messageWindows, byteWindows, payloadSamples,
               llmTokenSamples, startTimes, lastMsgTimes, msgRateHistory,
               cacheBytesHist, genTimeHistory>>

----
(* Bounds of the model *)

MaxOps == 3
MaxInits == 2
MaxTicks == 1
MaxWindowOps == 3
MaxFeedOps == 3
MaxCacheChanges == 2
MaxExtraSnapshots == 2
MaxAliasOps == 4
MaxWindowTicks == 3

(* Inputs *)

FeedIDs == {"f1", "f2"}
Names == {"alpha", "beta"}
NameRank == [n \in Names |-> IF n = "alpha" THEN 1 ELSE 2]
TickSteps == {5}
WindowTickSteps == {5, 55}
HistoryCacheArgs == {<<1, 10, 0>>, <<2, 25, 4>>}
PayloadSizes == {-2, 3}
EvictionCounts == {-1, 2}
CacheArgs == {<<2, 25, 4>>}
LLMArgs == {<<100, 50, 200, 800, 3, FALSE>>,
            <<-7, -4, -20, -80, 1, TRUE>>}

(* Program constants *)

WindowRetention == 60
RateWindow == 10
SampleRetention == 300
PayloadMaxSamples == 1000
TokenMaxSamples == 100
HistoryCapacity == 30
modelContextLimit == 128000

Nil == "nil"

\* a pointer or slice header: <<>> is nil, <<x>> refers to x
NilRef == <<>>
Ref(x) == <<x>>

\* a *FeedMetrics: it points either to a struct of its own holding m (the
\* local copy a call made) or to the struct stored in c.feedMetrics[f]
AddressOfStored(m, f) == Ref([target |-> "collector", feed |-> f, value |-> <<>>])
AddressOfCopy(m, f) == Ref([target |-> "copy", feed |-> f, value |-> <<m>>])

----
(* float64 as a rational *)

F(n) == <<n, 1>>
FDiv(a, b) == <<a[1] * b[2], a[2] * b[1]>>
FMul(a, b) == <<a[1] * b[1], a[2] * b[2]>>
FEq(a, b) == a[2] > 0 /\ b[2] > 0 /\ a[1] * b[2] = b[1] * a[2]
FGeZero(a) == a[2] > 0 /\ a[1] >= 0

RECURSIVE SumSeq(_)
SumSeq(s) == IF s = <<>> THEN 0 ELSE Head(s) + SumSeq(Tail(s))

Drop(s, n) == SubSeq(s, n + 1, Len(s))

\* Go's "idx := 0; for i, t := range ts { if t.After(cutoff) { idx = i; break } }"
FirstAfter(ts, cutoff) ==
    LET hits == {i \in 1..Len(ts) : ts[i] > cutoff}
    IN  IF hits = {} THEN 0
        ELSE (CHOOSE i \in hits : \A j \in hits : i <= j) - 1

----
(* slidingWindow *)

newSlidingWindow(duration) == [samples |-> <<>>, duration |-> duration]

Timestamps(samples) == [i \in 1..Len(samples) |-> samples[i].timestamp]

prune(w, t) ==
    LET idx == FirstAfter(Timestamps(w.samples), t - w.duration)
    IN  IF idx > 0 THEN [w EXCEPT !.samples = Drop(w.samples, idx)] ELSE w

WindowAddFirst(w, value, t) ==
    prune([w EXCEPT !.samples = <<[timestamp |-> t, value |-> value]>> \o w.samples], t)

WindowAdd(w, value, t) ==
    prune([w EXCEPT !.samples = Append(w.samples, [timestamp |-> t, value |-> value])], t)

WindowSum(samples, cutoff) ==
    SumSeq([i \in 1..Len(samples) |->
              IF samples[i].timestamp > cutoff THEN samples[i].value ELSE 0])

RateWholeLog(w, windowDuration, t) ==
    FDiv(F(WindowSum(prune(w, t).samples, t - w.duration - 1)), F(windowDuration))

\* Rate prunes the window first (the window it leaves behind is prune(w, t))
Rate(w, windowDuration, t) ==
    FDiv(F(WindowSum(prune(w, t).samples, t - windowDuration)), F(windowDuration))

----
(* payloadSampler *)

newPayloadSampler(maxSamples, duration) ==
    [samples |-> <<>>, times |-> <<>>, maxSize |-> maxSamples, duration |-> duration]

PayloadAddDropsNewest(p, size, t) ==
    LET idx == FirstAfter(p.times, t - p.duration)
        s0 == IF idx > 0 THEN Drop(p.samples, idx) ELSE p.samples
        t0 == IF idx > 0 THEN Drop(p.times, idx) ELSE p.times
    IN  IF Len(s0) + 1 > p.maxSize
        THEN p
        ELSE [p EXCEPT !.samples = Append(s0, size), !.times = Append(t0, t)]

PayloadAdd(p, size, t) ==
    LET idx == FirstAfter(p.times, t - p.duration)
        s1 == Append(IF idx > 0 THEN Drop(p.samples, idx) ELSE p.samples, size)
        t1 == Append(IF idx > 0 THEN Drop(p.times, idx) ELSE p.times, t)
    IN  IF Len(s1) > p.maxSize
        THEN [p EXCEPT !.samples = Tail(s1), !.times = Tail(t1)]
        ELSE [p EXCEPT !.samples = s1, !.times = t1]

PayloadStats(p) ==
    IF Len(p.samples) = 0 THEN F(0)
    ELSE FDiv(F(SumSeq(p.samples)), F(Len(p.samples)))

----
(* tokenSampler *)

newTokenSampler(maxSamples, duration) ==
    [ttfts |-> <<>>, genTimes |-> <<>>, times |-> <<>>,
     maxSize |-> maxSamples, duration |-> duration,
     totalInputTokens |-> 0, totalOutputTokens |-> 0,
     lastInputTokens |-> 0, lastOutputTokens |-> 0,
     lastTTFT |-> F(0), lastGenTime |-> F(0)]

TokenAddUnguarded(s, promptTokens, responseTokens, ttftMs, genTimeMs, t) ==
    [s EXCEPT
       !.totalInputTokens = @ + promptTokens,
       !.totalOutputTokens = @ + responseTokens,
       !.lastInputTokens = promptTokens,
       !.lastOutputTokens = responseTokens,
       !.lastTTFT = F(ttftMs),
       !.lastGenTime = F(genTimeMs),
       !.ttfts = Append(s.ttfts, ttftMs),
       !.genTimes = Append(s.genTimes, genTimeMs),
       !.times = Append(s.times, t)]

TokenAdd(s, promptTokens, responseTokens, ttftMs, genTimeMs, t) ==
    LET idx == FirstAfter(s.times, t - s.duration)
        cut(q) == IF idx > 0 THEN Drop(q, idx) ELSE q
    IN  [s EXCEPT
           !.totalInputTokens = IF promptTokens > 0 THEN @ + promptTokens ELSE @,
           !.totalOutputTokens = IF responseTokens > 0 THEN @ + responseTokens ELSE @,
           !.lastInputTokens = promptTokens,
           !.lastOutputTokens = responseTokens,
           !.lastTTFT = F(ttftMs),
           !.lastGenTime = F(genTimeMs),
           !.ttfts = Append(cut(s.ttfts), ttftMs),
           !.genTimes = Append(cut(s.genTimes), genTimeMs),
           !.times = Append(cut(s.times), t)]

TokenStats(s) ==
    [inputTotal |-> s.totalInputTokens,
     outputTotal |-> s.totalOutputTokens,
     inputLast |-> s.lastInputTokens,
     outputLast |-> s.lastOutputTokens,
     ttftLast |-> s.lastTTFT,
     genTimeLast |-> s.lastGenTime,
     ttftAvg |-> IF Len(s.ttfts) = 0 THEN F(0)
                 ELSE FDiv(F(SumSeq(s.ttfts)), F(Len(s.ttfts))),
     genTimeAvg |-> IF Len(s.ttfts) = 0 \/ Len(s.genTimes) = 0 THEN F(0)
                    ELSE FDiv(F(SumSeq(s.genTimes)), F(Len(s.genTimes)))]

----
(* historySampler: samples is a slice, i.e. a reference to an array of heap *)

HistKinds == {"msgRate", "cacheBytes", "genTime"}
Addr == [owner : {"sampler", "snapshot"}, kind : HistKinds, feed : FeedIDs]
SamplerArrays == {a \in Addr : a.owner = "sampler"}
SamplerArray(kind, f) == [owner |-> "sampler", kind |-> kind, feed |-> f]
SnapshotArray(kind, f) == [owner |-> "snapshot", kind |-> kind, feed |-> f]

newHistorySampler(kind, f, maxSamples) ==
    [samples |-> SamplerArray(kind, f), maxSize |-> maxSamples]

HistoryAddKeepsOldest(h, value, samples) ==
    LET s == Append(samples, value)
    IN  IF Len(s) > h.maxSize THEN SubSeq(s, 1, h.maxSize) ELSE s

\* h.Add(value): the contents of h.samples afterwards, given those before
HistoryAdd(h, value, samples) ==
    LET s == Append(samples, value)
    IN  IF Len(s) > h.maxSize THEN Tail(s) ELSE s

\* h.Values(): "result := make(...); copy(result, h.samples)" fills a fresh
\* array with the sampler's elements; the slice returned designates it
ValuesAliased(h, fresh) == Ref(h.samples)
Values(h, fresh) == Ref(fresh)

\* the elements a slice designates (a nil slice has none)
Elems(slice, hp) == IF slice = NilRef THEN <<>> ELSE hp[slice[1]]

----
(* Collector *)

Known == DOMAIN feedMetrics

newFeedMetrics(feedID, name, t) ==
    [FeedID |-> feedID, Name |-> name, LastUpdated |-> t,
     MessagesReceivedTotal |-> 0, MessagesPerSecond10s |-> F(0),
     BytesReceivedTotal |-> 0, BytesPerSecond10s |-> F(0),
     LastMessageAgeSeconds |-> F(0), WSConnected |-> FALSE,
     ReconnectsTotal |-> 0, CurrentUptimeSeconds |-> F(0),
     CacheItemsCurrent |-> 0, CacheApproxBytes |-> 0,
     OldestItemAgeSeconds |-> F(0),
     MessagesDroppedTotal |-> 0, ContextEvictionsTotal |-> 0,
     DropRatePercent |-> F(0),
     PayloadSizeLastBytes |-> 0, PayloadSizeAvgBytes |-> F(0),
     PayloadSizeMaxBytes |-> 0,
     LLMRequestsTotal |-> 0, InputTokensTotal |-> 0, OutputTokensTotal |-> 0,
     InputTokensLast |-> 0, OutputTokensLast |-> 0,
     ContextUtilizationPercent |-> F(0), LLMErrorsTotal |-> 0,
     EventsInContextCurrent |-> 0,
     TTFTMs |-> F(0), TTFTAvgMs |-> F(0),
     GenerationTimeMs |-> F(0), GenerationTimeAvgMs |-> F(0),
     MsgRateHistory |-> NilRef, CacheBytesHistory |-> NilRef,
     GenTimeHistory |-> NilRef, PayloadSizeHistory |-> NilRef]

Put(m, k, v) == [x \in (DOMAIN m) \cup {k} |-> IF x = k THEN v ELSE m[x]]

Call(op, f, arg) == [op |-> op, feed |-> f, arg |-> arg]

Procs == {"p1", "p2"}
SamplerKinds == {"msgWindow", "byteWindow", "payload", "token",
                 "msgRate", "cacheBytes", "genTime"}
SamplerIds == SamplerKinds \X FeedIDs
NoLocals == [fm |-> NilRef, todo |-> <<>>, visit |-> {}, feeds |-> <<>>,
             seen |-> NilRef]

Count ==
    /\ ops' = ops + 1
    /\ UNCHANGED <<ticks, inits, goroutines, app, statuses, samplerResult, pipeline>>

\* the interval NewAIState sets, in seconds
AIInterval == 10

\* NewAIState(), and the zero values of Subscriptions and SelectedFeed; a
\* map has every feed ID as key, with the zero value where Go has no entry,
\* and the text of a prompt is kept as its length. requests counts the
\* request IDs made: each takes the clock's nanoseconds, a new value
NewAIState ==
    [AutoMode |-> FALSE, Interval |-> AIInterval,
     Prompts |-> [f \in FeedIDs |-> 0],
     Responses |-> [f \in FeedIDs |-> <<>>],
     OutputHistories |-> [f \in FeedIDs |-> 0],
     Loading |-> [f \in FeedIDs |-> FALSE],
     Paused |-> [f \in FeedIDs |-> FALSE],
     LastQuery |-> [f \in FeedIDs |-> NilRef],
     RequestID |-> "", RequestFeedID |-> "",
     ActiveRequests |-> <<>>,
     StartTimes |-> [f \in FeedIDs |-> NilRef],
     FirstTokens |-> [f \in FeedIDs |-> NilRef],
     Subscriptions |-> <<>>, SelectedFeed |-> "",
     requests |-> 0]

Init ==
    /\ now = 0
    /\ feedMetrics = <<>>
    /\ messageWindows = <<>>
    /\ byteWindows = <<>>
    /\ payloadSamples = <<>>
    /\ llmTokenSamples = <<>>
    /\ startTimes = <<>>
    /\ lastMsgTimes = <<>>
    /\ msgRateHistory = <<>>
    /\ cacheBytesHist = <<>>
    /\ genTimeHistory = <<>>
    /\ heap = [a \in Addr |-> <<>>]
    /\ dashboardMetrics = <<>>
    /\ feedResult = NilRef
    /\ lastSnapshot = [f \in FeedIDs |-> NilRef]
    /\ recorded = [f \in FeedIDs |-> <<>>]
    /\ requested = [f \in FeedIDs |-> <<>>]
    /\ statuses = [f \in FeedIDs |-> [last |-> FALSE, connects |-> 0, lastConnect |-> 0]]
    /\ samplerResult = NilRef
    /\ added = [a \in SamplerArrays |-> <<>>]
    /\ lastOp = Call("NewCollector", Nil, Nil)
    /\ pc = [p \in Procs |-> "idle"]
    /\ call = [p \in Procs |-> Call("none", Nil, Nil)]
    /\ local = [p \in Procs |-> NoLocals]
    /\ mu = [writer |-> Nil, readers |-> {}]
    /\ smu = [m \in SamplerIds |-> Nil]
    /\ Entries = <<>>
    /\ evicted = 0
    /\ addCalls = 0
    /\ Feeds = <<>>
    /\ wsClient = FALSE
    /\ wire = <<>>
    /\ ctx = "none"
    /\ incoming = <<>>
    /\ chanClosed = FALSE
    /\ readLoop = [pc |-> "none", msg |-> NilRef, sent |-> 0, client |-> "none"]
    /\ waiting = 0
    /\ teaMsgs = <<>>
    /\ sending = <<>>
    /\ timers = 0
    /\ given = <<>>
    /\ queries = <<>>
    /\ ai = NewAIState
    /\ ops = 0
    /\ inits = 0
    /\ ticks = 0

Tick(d) ==
    /\ ticks' = ticks + 1
    /\ now' = now + d
    /\ lastOp' = Call("Tick", Nil, d)
    /\ UNCHANGED <<collector, heap, added, dashboardMetrics, feedResult,
                   lastSnapshot, recorded, requested, ops, inits, goroutines, app, statuses, samplerResult, pipeline>>

\* the body of InitFeed for a feed that does not exist yet
CreateFeed(f, name) ==
    /\ feedMetrics' = Put(feedMetrics, f, newFeedMetrics(f, name, now))
    /\ messageWindows' = Put(messageWindows, f, newSlidingWindow(WindowRetention))
    /\ byteWindows' = Put(byteWindows, f, newSlidingWindow(WindowRetention))
    /\ payloadSamples' =
           Put(payloadSamples, f, newPayloadSampler(PayloadMaxSamples, SampleRetention))
    /\ llmTokenSamples' =
           Put(llmTokenSamples, f, newTokenSampler(TokenMaxSamples, SampleRetention))
    /\ startTimes' = Put(startTimes, f, now)
    /\ msgRateHistory' =
           Put(msgRateHistory, f, newHistorySampler("msgRate", f, HistoryCapacity))
    /\ cacheBytesHist' =
           Put(cacheBytesHist, f, newHistorySampler("cacheBytes", f, HistoryCapacity))
    /\ genTimeHistory' =
           Put(genTimeHistory, f, newHistorySampler("genTime", f, HistoryCapacity))
    /\ heap' = [a \in Addr |->
                  IF a.owner = "sampler" /\ a.feed = f THEN <<>> ELSE heap[a]]
    /\ added' = [a \in SamplerArrays |-> IF a.feed = f THEN <<>> ELSE added[a]]
    /\ UNCHANGED lastMsgTimes

InitFeedReset(f, name) ==
    /\ inits' = inits + 1
    /\ lastOp' = Call("InitFeed", f, name)
    /\ CreateFeed(f, name)
    /\ UNCHANGED <<now, dashboardMetrics, feedResult, lastSnapshot,
                   recorded, requested, ops, ticks, goroutines, app, statuses, samplerResult, pipeline>>

InitFeed(f, name) ==
    /\ inits' = inits + 1
    /\ lastOp' = Call("InitFeed", f, name)
    /\ IF f \notin Known
       THEN CreateFeed(f, name)
       ELSE UNCHANGED <<collector, heap, added>>
    /\ UNCHANGED <<now, dashboardMetrics, feedResult, lastSnapshot,
                   recorded, requested, ops, ticks, goroutines, app, statuses, samplerResult, pipeline>>

MessageFmLastAsMax(fm, payloadSize, t) ==
    [fm EXCEPT
       !.MessagesReceivedTotal = @ + 1,
       !.BytesReceivedTotal = IF payloadSize > 0 THEN @ + payloadSize ELSE @,
       !.PayloadSizeLastBytes = payloadSize,
       !.PayloadSizeMaxBytes = IF payloadSize > 0 THEN payloadSize ELSE @,
       !.LastUpdated = t]

\* RecordMessage's assignments to *fm
MessageFm(fm, payloadSize, t) ==
    [fm EXCEPT
       !.MessagesReceivedTotal = @ + 1,
       !.BytesReceivedTotal = IF payloadSize > 0 THEN @ + payloadSize ELSE @,
       !.PayloadSizeLastBytes = payloadSize,
       !.PayloadSizeMaxBytes = IF payloadSize > @ THEN payloadSize ELSE @,
       !.LastUpdated = t]

\* the body of RecordMessage for a feed that exists
RecordMessageKnown(f, payloadSize) ==
    /\ recorded' = [recorded EXCEPT ![f] =
           Append(@, [timestamp |-> now, size |-> payloadSize])]
    /\ feedMetrics' = [feedMetrics EXCEPT ![f] = MessageFm(@, payloadSize, now)]
    /\ lastMsgTimes' = Put(lastMsgTimes, f, now)
    /\ messageWindows' = [messageWindows EXCEPT ![f] = WindowAdd(@, 1, now)]
    /\ byteWindows' = [byteWindows EXCEPT ![f] = WindowAdd(@, payloadSize, now)]
    /\ payloadSamples' = [payloadSamples EXCEPT ![f] = PayloadAdd(@, payloadSize, now)]
    /\ UNCHANGED <<llmTokenSamples, startTimes, msgRateHistory,
                   cacheBytesHist, genTimeHistory>>

RecordMessageStampFirst(f, payloadSize) ==
    /\ Count
    /\ lastOp' = Call("RecordMessage", f, payloadSize)
    /\ IF f \in Known
       THEN RecordMessageKnown(f, payloadSize)
       ELSE /\ lastMsgTimes' = Put(lastMsgTimes, f, now)
            /\ UNCHANGED <<feedMetrics, messageWindows, byteWindows, payloadSamples,
                           llmTokenSamples, startTimes, msgRateHistory,
                           cacheBytesHist, genTimeHistory, recorded>>
    /\ UNCHANGED <<now, heap, added, dashboardMetrics, feedResult, lastSnapshot,
                   requested>>

RecordMessage(f, payloadSize) ==
    /\ Count
    /\ lastOp' = Call("RecordMessage", f, payloadSize)
    /\ IF f \in Known
       THEN RecordMessageKnown(f, payloadSize)
       ELSE UNCHANGED <<collector, recorded>>
    /\ UNCHANGED <<now, heap, added, dashboardMetrics, feedResult, lastSnapshot,
                   requested>>

WSStatusCountsConnects(f, connected) ==
    /\ IF f \in Known
       THEN LET wasConnected == feedMetrics[f].WSConnected
            IN  /\ feedMetrics' = [feedMetrics EXCEPT ![f] =
                       [@ EXCEPT !.WSConnected = connected,
                          !.ReconnectsTotal = IF connected /\ ~wasConnected THEN @ + 1 ELSE @]]
                /\ startTimes' = IF connected # wasConnected
                                 THEN [startTimes EXCEPT ![f] = now] ELSE startTimes
       ELSE UNCHANGED <<feedMetrics, startTimes>>
    /\ UNCHANGED <<messageWindows, byteWindows, payloadSamples, llmTokenSamples,
                   lastMsgTimes, msgRateHistory, cacheBytesHist, genTimeHistory>>

\* what RecordWSStatus does to the collector (all of it under c.mu)
WSStatusEffect(f, connected) ==
    /\ IF f \in Known
       THEN LET wasConnected == feedMetrics[f].WSConnected
            IN  /\ feedMetrics' = [feedMetrics EXCEPT ![f] =
                       [@ EXCEPT
                          !.WSConnected = connected,
                          !.ReconnectsTotal =
                              IF ~connected /\ wasConnected THEN @ + 1 ELSE @]]
                /\ startTimes' =
                       IF connected # wasConnected
                       THEN [startTimes EXCEPT ![f] = now] ELSE startTimes
       ELSE UNCHANGED <<feedMetrics, startTimes>>
    /\ UNCHANGED <<messageWindows, byteWindows, payloadSamples, llmTokenSamples,
                   lastMsgTimes, msgRateHistory, cacheBytesHist, genTimeHistory>>

\* the RecordWSStatus calls made for a feed: the argument of the last one
\* (false before the first), how many of them changed the status from false
\* to true, and the time of the last of those
StatusCall(s, connected, t) ==
    IF connected /\ ~s.last
    THEN [last |-> connected, connects |-> s.connects + 1, lastConnect |-> t]
    ELSE [s EXCEPT !.last = connected]

RecordWSStatus(f, connected) ==
    /\ ops' = ops + 1
    /\ lastOp' = Call("RecordWSStatus", f, connected)
    /\ statuses' = IF f \in Known
                   THEN [statuses EXCEPT ![f] = StatusCall(@, connected, now)]
                   ELSE statuses
    /\ WSStatusEffect(f, connected)
    /\ UNCHANGED <<ticks, inits, goroutines, app, samplerResult, pipeline>>
    /\ UNCHANGED <<now, heap, added, dashboardMetrics, feedResult, lastSnapshot, recorded, requested>>

\* what RecordCacheStats does to the collector (all of it under c.mu)
CacheStatsEffect(f, itemCount, approxBytes, oldestAge) ==
    /\ feedMetrics' =
          IF f \in Known
          THEN [feedMetrics EXCEPT ![f] =
                  [@ EXCEPT !.CacheItemsCurrent = itemCount,
                            !.CacheApproxBytes = approxBytes,
                            !.OldestItemAgeSeconds = F(oldestAge)]]
          ELSE feedMetrics
    /\ UNCHANGED <<messageWindows, byteWindows, payloadSamples, llmTokenSamples,
                   startTimes, lastMsgTimes, msgRateHistory, cacheBytesHist,
                   genTimeHistory>>

RecordCacheStats(f, itemCount, approxBytes, oldestAge) ==
    /\ Count
    /\ lastOp' = Call("RecordCacheStats", f, <<itemCount, approxBytes, oldestAge>>)
    /\ CacheStatsEffect(f, itemCount, approxBytes, oldestAge)
    /\ UNCHANGED <<now, heap, added, dashboardMetrics, feedResult, lastSnapshot, recorded, requested>>

PacketLossEffectFraction(f) ==
    /\ feedMetrics' =
          IF f \in Known
          THEN LET dropped == feedMetrics[f].MessagesDroppedTotal + 1
                   received == feedMetrics[f].MessagesReceivedTotal
               IN  [feedMetrics EXCEPT ![f] =
                      [@ EXCEPT !.MessagesDroppedTotal = dropped,
                                !.DropRatePercent =
                                    IF received > 0
                                    THEN FDiv(F(dropped), F(received))
                                    ELSE F(0)]]
          ELSE feedMetrics
    /\ UNCHANGED <<messageWindows, byteWindows, payloadSamples, llmTokenSamples,
                   startTimes, lastMsgTimes, msgRateHistory, cacheBytesHist,
                   genTimeHistory>>

PacketLossEveryFeed(f) ==
    /\ feedMetrics' =
          IF f \in Known
          THEN [g \in Known |->
                  [feedMetrics[g] EXCEPT !.MessagesDroppedTotal = @ + 1]]
          ELSE feedMetrics
    /\ UNCHANGED <<messageWindows, byteWindows, payloadSamples, llmTokenSamples,
                   startTimes, lastMsgTimes, msgRateHistory, cacheBytesHist,
                   genTimeHistory>>

\* what RecordPacketLoss does to the collector (all of it under c.mu)
PacketLossEffect(f) ==
    /\ feedMetrics' =
          IF f \in Known
          THEN LET dropped == feedMetrics[f].MessagesDroppedTotal + 1
                   received == feedMetrics[f].MessagesReceivedTotal
               IN  [feedMetrics EXCEPT ![f] =
                      [@ EXCEPT !.MessagesDroppedTotal = dropped,
                                !.DropRatePercent =
                                    IF received > 0
                                    THEN FMul(FDiv(F(dropped), F(received)), F(100))
                                    ELSE @]]
          ELSE feedMetrics
    /\ UNCHANGED <<messageWindows, byteWindows, payloadSamples, llmTokenSamples,
                   startTimes, lastMsgTimes, msgRateHistory, cacheBytesHist,
                   genTimeHistory>>

RecordPacketLoss(f) ==
    /\ Count
    /\ lastOp' = Call("RecordPacketLoss", f, Nil)
    /\ PacketLossEffect(f)
    /\ UNCHANGED <<now, heap, added, dashboardMetrics, feedResult, lastSnapshot, recorded, requested>>

ContextEvictionAnyCount(f, count) ==
    /\ feedMetrics' =
          IF f \in Known
          THEN [feedMetrics EXCEPT ![f].ContextEvictionsTotal = @ + count]
          ELSE feedMetrics
    /\ UNCHANGED <<messageWindows, byteWindows, payloadSamples, llmTokenSamples,
                   startTimes, lastMsgTimes, msgRateHistory, cacheBytesHist,
                   genTimeHistory>>

\* what RecordContextEviction does to the collector (all of it under c.mu)
ContextEvictionEffect(f, count) ==
    /\ feedMetrics' =
          IF f \in Known /\ count > 0
          THEN [feedMetrics EXCEPT ![f].ContextEvictionsTotal = @ + count]
          ELSE feedMetrics
    /\ UNCHANGED <<messageWindows, byteWindows, payloadSamples, llmTokenSamples,
                   startTimes, lastMsgTimes, msgRateHistory, cacheBytesHist,
                   genTimeHistory>>

RecordContextEviction(f, count) ==
    /\ Count
    /\ lastOp' = Call("RecordContextEviction", f, count)
    /\ ContextEvictionEffect(f, count)
    /\ UNCHANGED <<now, heap, added, dashboardMetrics, feedResult, lastSnapshot, recorded, requested>>

\* RecordLLMRequest's assignments to *fm
LLMRequestFm(fm, eventsInContext, isError) ==
    [fm EXCEPT !.LLMRequestsTotal = @ + 1,
               !.EventsInContextCurrent = eventsInContext,
               !.LLMErrorsTotal = IF isError THEN @ + 1 ELSE @]

RecordLLMRequest(f, inputTokens, outputTokens, ttftMs, genTimeMs, eventsInContext, isError) ==
    /\ Count
    /\ lastOp' = Call("RecordLLMRequest", f,
                      <<inputTokens, outputTokens, ttftMs, genTimeMs, eventsInContext, isError>>)
    /\ IF f \in Known
       THEN /\ feedMetrics' = [feedMetrics EXCEPT ![f] =
                   LLMRequestFm(@, eventsInContext, isError)]
            /\ llmTokenSamples' = [llmTokenSamples EXCEPT ![f] =
                   TokenAdd(@, inputTokens, outputTokens, ttftMs, genTimeMs, now)]
            /\ requested' = [requested EXCEPT ![f] =
                   Append(@, [timestamp |-> now, inputTokens |-> inputTokens,
                              outputTokens |-> outputTokens, ttftMs |-> ttftMs,
                              genTimeMs |-> genTimeMs])]
       ELSE UNCHANGED <<feedMetrics, llmTokenSamples, requested>>
    /\ UNCHANGED <<now, messageWindows, byteWindows, payloadSamples,
                   startTimes, lastMsgTimes, msgRateHistory,
                   cacheBytesHist, genTimeHistory, heap, added, dashboardMetrics,
                   feedResult, lastSnapshot, recorded>>

----
(* Collector: snapshots *)

\* "metrics := *fm" with the two fields read from the collector's own maps
\* under c.mu, the uptime and the last message age; Derived adds the fields
\* GetMetrics and GetFeedMetrics both take from samplers, the two rates and
\* the payload average
Copied(f) ==
    [feedMetrics[f] EXCEPT
       !.CurrentUptimeSeconds = F(now - startTimes[f]),
       !.LastMessageAgeSeconds =
           IF f \in DOMAIN lastMsgTimes THEN F(now - lastMsgTimes[f]) ELSE @]

Derived(f) ==
    [Copied(f) EXCEPT
       !.MessagesPerSecond10s = Rate(messageWindows[f], RateWindow, now),
       !.BytesPerSecond10s = Rate(byteWindows[f], RateWindow, now),
       !.PayloadSizeAvgBytes = PayloadStats(payloadSamples[f])]

\* the LLM fields, which only GetMetrics derives
WithLLMStats(m, f) ==
    LET st == TokenStats(llmTokenSamples[f])
    IN  [m EXCEPT
           !.InputTokensTotal = st.inputTotal,
           !.OutputTokensTotal = st.outputTotal,
           !.InputTokensLast = st.inputLast,
           !.OutputTokensLast = st.outputLast,
           !.TTFTMs = st.ttftLast,
           !.TTFTAvgMs = st.ttftAvg,
           !.GenerationTimeMs = st.genTimeLast,
           !.GenerationTimeAvgMs = st.genTimeAvg,
           !.ContextUtilizationPercent =
               IF st.inputLast > 0
               THEN FMul(FDiv(F(st.inputLast), F(modelContextLimit)), F(100))
               ELSE @]

HistorySampleItems(m, kind) ==
    CASE kind = "msgRate" -> m.MessagesPerSecond10s
      [] kind = "cacheBytes" -> F(m.CacheItemsCurrent)
      [] kind = "genTime" -> m.GenerationTimeMs

\* the value pushed into each trend history of a feed
HistorySample(m, kind) ==
    CASE kind = "msgRate" -> m.MessagesPerSecond10s
      [] kind = "cacheBytes" -> F(m.CacheApproxBytes)
      [] kind = "genTime" -> m.GenerationTimeMs

HistorySamplerOf(kind, f) ==
    CASE kind = "msgRate" -> msgRateHistory[f]
      [] kind = "cacheBytes" -> cacheBytesHist[f]
      [] kind = "genTime" -> genTimeHistory[f]

\* one feed's snapshot as GetMetrics builds it
MetricsOf(f) ==
    LET m == WithLLMStats(Derived(f), f)
    IN  [m EXCEPT
           !.MsgRateHistory =
               Values(HistorySamplerOf("msgRate", f), SnapshotArray("msgRate", f)),
           !.CacheBytesHistory =
               Values(HistorySamplerOf("cacheBytes", f), SnapshotArray("cacheBytes", f)),
           !.GenTimeHistory =
               Values(HistorySamplerOf("genTime", f), SnapshotArray("genTime", f))]

\* the heap after "sampler.Add(v); metrics.XHistory = sampler.Values()" for
\* the three trend histories of every feed in feeds: the sampler's array
\* holds the new contents, and the array made by Values() a copy of them
SampleHistories(hp, feeds) ==
    [a \in Addr |->
        IF a.feed \in feeds
        THEN HistoryAdd(HistorySamplerOf(a.kind, a.feed),
                        HistorySample(MetricsOf(a.feed), a.kind),
                        hp[HistorySamplerOf(a.kind, a.feed).samples])
        ELSE hp[a]]

\* the orders in which "for feedID, fm := range c.feedMetrics" may visit
Orders(feeds) ==
    {s \in [1..Cardinality(feeds) -> feeds] : \A i, j \in DOMAIN s : i # j => s[i] # s[j]}

\* sort.Slice(feeds, Name less): any arrangement of the visited feeds with
\* no later name before an earlier one (the sort is not stable)
SortedUnsorted(order) == Orders({order[i] : i \in DOMAIN order})
Sorted(order) ==
    {s \in Orders({order[i] : i \in DOMAIN order}) :
        \A i, j \in DOMAIN s :
            i < j => ~(NameRank[feedMetrics[s[j]].Name] < NameRank[feedMetrics[s[i]].Name])}

GetMetrics ==
    /\ Count
    /\ lastOp' = Call("GetMetrics", Nil, Nil)
    /\ \E order \in Orders(Known) : \E sorted \in Sorted(order) :
          dashboardMetrics' = [i \in 1..Len(sorted) |-> MetricsOf(sorted[i])]
    /\ messageWindows' = [f \in Known |-> prune(messageWindows[f], now)]
    /\ byteWindows' = [f \in Known |-> prune(byteWindows[f], now)]
    /\ heap' = SampleHistories(heap, Known)
    /\ added' = [a \in SamplerArrays |->
                   IF a.feed \in Known
                   THEN Append(added[a], HistorySample(MetricsOf(a.feed), a.kind))
                   ELSE added[a]]
    /\ lastSnapshot' = [f \in FeedIDs |->
                        IF f \in Known THEN Ref(MetricsOf(f)) ELSE lastSnapshot[f]]
    /\ UNCHANGED <<now, feedMetrics, payloadSamples, llmTokenSamples, startTimes,
                   lastMsgTimes, msgRateHistory, cacheBytesHist, genTimeHistory,
                   feedResult, recorded, requested>>

GetFeedMetricsSampling(f) ==
    /\ Count
    /\ lastOp' = Call("GetFeedMetrics", f, Nil)
    /\ IF f \in Known
       THEN /\ feedResult' = AddressOfCopy(Derived(f), f)
            /\ lastSnapshot' = [lastSnapshot EXCEPT ![f] = Ref(Derived(f))]
            /\ heap' = SampleHistories(heap, {f})
       ELSE /\ feedResult' = NilRef
            /\ UNCHANGED <<lastSnapshot, heap>>
    /\ UNCHANGED <<now, collector, added, dashboardMetrics, recorded, requested>>

GetFeedMetrics(f) ==
    /\ Count
    /\ lastOp' = Call("GetFeedMetrics", f, Nil)
    /\ IF f \in Known
       THEN /\ feedResult' = AddressOfCopy(Derived(f), f)
            /\ lastSnapshot' = [lastSnapshot EXCEPT ![f] = Ref(Derived(f))]
            /\ messageWindows' = [messageWindows EXCEPT ![f] = prune(@, now)]
            /\ byteWindows' = [byteWindows EXCEPT ![f] = prune(@, now)]
       ELSE /\ feedResult' = NilRef
            /\ UNCHANGED <<lastSnapshot, messageWindows, byteWindows>>
    /\ UNCHANGED <<now, feedMetrics, payloadSamples, llmTokenSamples, startTimes,
                   lastMsgTimes, msgRateHistory, cacheBytesHist, genTimeHistory,
                   heap, added, dashboardMetrics, recorded, requested>>

----
(* The sequential specification: calls made one after another, with every  *)
(* kind of call and argument; "f1" is the feed that gets initialized and   *)
(* "f2" a feed ID never passed to InitFeed                                 *)

Ingest(f) ==
    \/ \E size \in PayloadSizes : RecordMessage(f, size)
    \/ \E connected \in BOOLEAN : RecordWSStatus(f, connected)
    \/ \E a \in CacheArgs : RecordCacheStats(f, a[1], a[2], a[3])
    \/ RecordPacketLoss(f)
    \/ \E count \in EvictionCounts : RecordContextEviction(f, count)
    \/ \E a \in LLMArgs : RecordLLMRequest(f, a[1], a[2], a[3], a[4], a[5], a[6])

Next ==
    \/ ticks < MaxTicks /\ \E d \in TickSteps : Tick(d)
    \/ inits < MaxInits /\ \E name \in Names : InitFeed("f1", name)
    \/ ops < MaxOps /\ \E f \in FeedIDs : Ingest(f)
    \/ ops < MaxOps /\ GetMetrics
    \/ ops < MaxOps /\ \E f \in FeedIDs : GetFeedMetrics(f)

Spec == Init /\ [][Next]_vars

----
(* Claims checked under Spec *)

\* the struct a *FeedMetrics points to
Deref(ptr) == IF ptr.target = "copy" THEN ptr.value[1] ELSE feedMetrics[ptr.feed]

IngestOps == {"RecordMessage", "RecordWSStatus", "RecordCacheStats",
              "RecordPacketLoss", "RecordContextEviction", "RecordLLMRequest"}

\* every snapshot a reader currently holds
Snapshots ==
    {dashboardMetrics[i] : i \in DOMAIN dashboardMetrics}
        \cup {Deref(feedResult[i]) : i \in DOMAIN feedResult}

\* C3: an ingestion call with a feed ID never passed to InitFeed leaves the
\* whole collector state (every map, sampler and trend history) unchanged,
\* and GetFeedMetrics for such an ID returns nil and changes nothing either.
C3_UnknownFeedNoOp ==
    [][/\ (lastOp'.op \in IngestOps /\ lastOp'.feed \notin Known)
            => (collector' = collector /\ heap' = heap)
       /\ (lastOp'.op = "GetFeedMetrics" /\ lastOp'.feed \notin Known)
            => (feedResult' = NilRef /\ collector' = collector /\ heap' = heap)]_vars

C3_Witness ==
    /\ lastOp.op = "RecordLLMRequest"
    /\ lastOp.feed \notin Known
    /\ \E g \in Known : feedMetrics[g].MessagesReceivedTotal > 0

Counters == {"MessagesReceivedTotal", "BytesReceivedTotal", "ReconnectsTotal",
             "MessagesDroppedTotal", "ContextEvictionsTotal", "LLMRequestsTotal",
             "LLMErrorsTotal", "InputTokensTotal", "OutputTokensTotal"}

\* C4: between two successive snapshots of a feed (from GetMetrics or
\* GetFeedMetrics) none of the nine cumulative counters decreases.
C4_CountersMonotonic ==
    [][\A f \in FeedIDs :
          (lastSnapshot[f] # NilRef /\ lastSnapshot'[f] # NilRef)
              => \A c \in Counters : lastSnapshot'[f][1][c] >= lastSnapshot[f][1][c]]_vars

\* C5: in every snapshot the two rates and the three averages are >= 0.
C5_RatesAndAveragesNonNegative ==
    \A m \in Snapshots :
        /\ FGeZero(m.MessagesPerSecond10s)
        /\ FGeZero(m.BytesPerSecond10s)
        /\ FGeZero(m.PayloadSizeAvgBytes)
        /\ FGeZero(m.TTFTAvgMs)
        /\ FGeZero(m.GenerationTimeAvgMs)

\* C6: InitFeed for a feed that is already initialized changes nothing of
\* the collector: name, counters, start time, windows, samplers, histories.
C6_InitFeedIdempotent ==
    [][(lastOp'.op = "InitFeed" /\ lastOp'.feed \in Known)
          => (collector' = collector /\ heap' = heap)]_vars

C6_Witness ==
    /\ lastOp.op = "InitFeed"
    /\ lastOp.feed \in Known
    /\ feedMetrics[lastOp.feed].Name # lastOp.arg
    /\ feedMetrics[lastOp.feed].MessagesReceivedTotal > 0
    /\ startTimes[lastOp.feed] < now

\* C13: a RecordPacketLoss call on an initialized feed increments
\* MessagesDroppedTotal; with MessagesReceivedTotal > 0 it sets
\* DropRatePercent to MessagesDroppedTotal / MessagesReceivedTotal * 100,
\* with MessagesReceivedTotal = 0 it leaves DropRatePercent as it was.
C13_DropRateAfterPacketLoss ==
    [][\A f \in Known :
          (lastOp'.op = "RecordPacketLoss" /\ lastOp'.feed = f)
          => LET old == feedMetrics[f]
                 new == feedMetrics'[f]
             IN  /\ new.MessagesDroppedTotal = old.MessagesDroppedTotal + 1
                 /\ new.MessagesReceivedTotal = old.MessagesReceivedTotal
                 /\ IF new.MessagesReceivedTotal > 0
                    THEN FEq(new.DropRatePercent,
                             FDiv(F(new.MessagesDroppedTotal * 100),
                                  F(new.MessagesReceivedTotal)))
                    ELSE new.DropRatePercent = old.DropRatePercent]_vars

\* one loss after two messages: 50 percent
C13_Witness ==
    /\ lastOp.op = "RecordPacketLoss"
    /\ lastOp.feed \in Known
    /\ feedMetrics[lastOp.feed].MessagesReceivedTotal = 2
    /\ feedMetrics[lastOp.feed].MessagesDroppedTotal = 1
    /\ FEq(feedMetrics[lastOp.feed].DropRatePercent, F(50))

SliceFields == {"MsgRateHistory", "CacheBytesHistory", "GenTimeHistory",
                "PayloadSizeHistory"}
NonHistory(m) == [k \in (DOMAIN m) \ SliceFields |-> m[k]]

\* C16: every non-history field of the snapshot GetFeedMetrics(f) returns,
\* the LLM token and latency fields and ContextUtilizationPercent included,
\* equals that field of f's entry in a GetMetrics result taken in the same
\* state.
C16_SameDerivation ==
    (lastOp.op = "GetFeedMetrics" /\ feedResult # NilRef)
    => NonHistory(Deref(feedResult[1])) = NonHistory(MetricsOf(lastOp.feed))

\* C17: a GetFeedMetrics call, for a known or an unknown feed ID, leaves
\* the contents of the message-rate, cache-bytes and generation-time
\* histories of every feed, and every stored FeedMetrics, as they were.
C17_GetFeedMetricsReadOnly ==
    [][lastOp'.op = "GetFeedMetrics" =>
          /\ \A a \in SamplerArrays : heap'[a] = heap[a]
          /\ msgRateHistory' = msgRateHistory
          /\ cacheBytesHist' = cacheBytesHist
          /\ genTimeHistory' = genTimeHistory
          /\ feedMetrics' = feedMetrics]_vars

\* the call was made for a feed with messages counted and histories sampled
C17_Witness ==
    /\ lastOp.op = "GetFeedMetrics"
    /\ lastOp.feed \in Known
    /\ feedResult # NilRef
    /\ feedMetrics[lastOp.feed].MessagesReceivedTotal > 0
    /\ Len(heap[SamplerArray("msgRate", lastOp.feed)]) = 1

MaxSizeOps == 4

\* payload sizes: negative, zero, and two positive ones
MessageSizes == {-2, 0, 3, 5}

NextSizes ==
    \/ inits < 1 /\ InitFeed("f1", "alpha")
    \/ ops < MaxSizeOps /\ \E size \in MessageSizes : RecordMessage("f1", size)
    \/ ops < MaxSizeOps /\ GetFeedMetrics("f1")

SpecSizes == Init /\ [][NextSizes]_vars

\* the largest of 0 and the sizes of the messages msgs
MaxSize(msgs) ==
    LET sizes == {0} \cup {msgs[i].size : i \in DOMAIN msgs}
    IN  CHOOSE m \in sizes : \A s \in sizes : s <= m

\* C32: RecordMessage(feed, size) on an initialized feed adds 1 to
\* MessagesReceivedTotal, adds size to BytesReceivedTotal only when size > 0,
\* sets PayloadSizeLastBytes to size, and keeps PayloadSizeMaxBytes the
\* maximum of 0 and all sizes recorded so far, so that
\* PayloadSizeMaxBytes >= PayloadSizeLastBytes.
C32_RecordMessageCounters ==
    [][\A f \in Known :
          (lastOp'.op = "RecordMessage" /\ lastOp'.feed = f)
          => LET old == feedMetrics[f]
                 new == feedMetrics'[f]
                 size == lastOp'.arg
             IN  /\ new.MessagesReceivedTotal = old.MessagesReceivedTotal + 1
                 /\ new.BytesReceivedTotal =
                       IF size > 0 THEN old.BytesReceivedTotal + size
                       ELSE old.BytesReceivedTotal
                 /\ new.PayloadSizeLastBytes = size
                 /\ new.PayloadSizeMaxBytes = MaxSize(recorded'[f])
                 /\ new.PayloadSizeMaxBytes >= new.PayloadSizeLastBytes]_vars

\* a negative size recorded after a smaller positive one that followed the
\* largest
C32_Witness ==
    /\ lastOp.op = "RecordMessage"
    /\ lastOp.feed \in Known
    /\ lastOp.arg < 0
    /\ feedMetrics[lastOp.feed].MessagesReceivedTotal = 3
    /\ feedMetrics[lastOp.feed].BytesReceivedTotal = 8
    /\ feedMetrics[lastOp.feed].PayloadSizeMaxBytes = 5
    /\ feedMetrics[lastOp.feed].PayloadSizeLastBytes = -2
    /\ recorded[lastOp.feed][2].size = 3

----
(* One feed, its sliding windows and the clock *)

NextWindow ==
    \/ ticks < MaxWindowTicks /\ \E d \in WindowTickSteps : Tick(d)
    \/ inits < 1 /\ InitFeed("f1", "alpha")
    \/ ops < MaxWindowOps /\ \E size \in PayloadSizes : RecordMessage("f1", size)
    \/ ops < MaxWindowOps /\ GetMetrics
    \/ ops < MaxWindowOps /\ GetFeedMetrics("f1")

SpecWindow == Init /\ [][NextWindow]_vars

\* the RecordMessage calls of feed f stamped strictly later than now - 10 s
Recent(f) == {i \in DOMAIN recorded[f] : recorded[f][i].timestamp > now - RateWindow}
RecentBytes(f) ==
    SumSeq([i \in DOMAIN recorded[f] |->
              IF i \in Recent(f) THEN recorded[f][i].size ELSE 0])

\* C7: the message rate reported at time t is (number of RecordMessage calls
\* stamped strictly later than t - 10 s) / 10 and the byte rate (sum of their
\* sizes) / 10; with no such call both are exactly 0.
C7_RateOverLastTenSeconds ==
    lastOp.op \in {"GetMetrics", "GetFeedMetrics"} =>
        \A m \in (IF lastOp.op = "GetMetrics"
                  THEN {dashboardMetrics[i] : i \in DOMAIN dashboardMetrics}
                  ELSE {Deref(feedResult[i]) : i \in DOMAIN feedResult}) :
            /\ FEq(m.MessagesPerSecond10s,
                   FDiv(F(Cardinality(Recent(m.FeedID))), F(RateWindow)))
            /\ FEq(m.BytesPerSecond10s, FDiv(F(RecentBytes(m.FeedID)), F(RateWindow)))
            /\ Recent(m.FeedID) = {} =>
                   (m.MessagesPerSecond10s[1] = 0 /\ m.BytesPerSecond10s[1] = 0)

C7_Witness ==
    /\ lastOp.op = "GetMetrics"
    /\ Len(dashboardMetrics) = 1
    /\ Recent("f1") # {}
    /\ Recent("f1") # DOMAIN recorded["f1"]
    /\ Len(messageWindows["f1"].samples) < Len(recorded["f1"])

\* the feeds whose sliding windows the call that produced this state has
\* pruned (Add in RecordMessage, Rate in GetMetrics and GetFeedMetrics)
PrunedBy(op) ==
    IF op.op = "GetMetrics" THEN Known
    ELSE IF op.op \in {"RecordMessage", "GetFeedMetrics"} THEN {op.feed} \cap Known
    ELSE {}

\* C31: after every Add and every Rate call at time t the log of a sliding
\* window holds no sample stamped at or before t minus the retention
\* duration (60 s); when every sample has expired the log is empty.
C31_WindowPruned ==
    \A f \in PrunedBy(lastOp) :
       /\ \A i \in DOMAIN messageWindows[f].samples :
             messageWindows[f].samples[i].timestamp > now - WindowRetention
       /\ \A i \in DOMAIN byteWindows[f].samples :
             byteWindows[f].samples[i].timestamp > now - WindowRetention

----
(* Several feeds: any feed ID may be initialized, under either name *)

NextFeeds ==
    \/ ticks < MaxTicks /\ \E d \in TickSteps : Tick(d)
    \/ inits < MaxInits /\ \E f \in FeedIDs, name \in Names : InitFeed(f, name)
    \/ ops < MaxFeedOps /\ \E f \in FeedIDs, size \in PayloadSizes : RecordMessage(f, size)
    \/ ops < MaxFeedOps /\ GetMetrics
    \/ ops < MaxFeedOps /\ \E f \in FeedIDs : GetFeedMetrics(f)

SpecFeeds == Init /\ [][NextFeeds]_vars

\* C10: GetMetrics returns exactly one snapshot per initialized feed, in
\* non-decreasing order of feed name.
C10_OnePerFeedSortedByName ==
    lastOp.op = "GetMetrics" =>
        /\ Len(dashboardMetrics) = Cardinality(Known)
        /\ {dashboardMetrics[i].FeedID : i \in DOMAIN dashboardMetrics} = Known
        /\ \A i, j \in DOMAIN dashboardMetrics :
               i < j => NameRank[dashboardMetrics[i].Name] <= NameRank[dashboardMetrics[j].Name]

C10_Witness ==
    /\ lastOp.op = "GetMetrics"
    /\ Len(dashboardMetrics) = 2
    /\ dashboardMetrics[1].Name # dashboardMetrics[2].Name
    /\ dashboardMetrics[1].FeedID = "f2"

FeedOrder(d) == [i \in DOMAIN d |-> d[i].FeedID]

\* C11: a GetMetrics call over the same set of initialized feeds as the
\* GetMetrics call before it returns the feed IDs in the same sequence,
\* also when feeds share a name.
C11_OrderDeterministic ==
    [][(/\ lastOp'.op = "GetMetrics"
        /\ dashboardMetrics # <<>>
        /\ {dashboardMetrics[i].FeedID : i \in DOMAIN dashboardMetrics} = Known)
       => FeedOrder(dashboardMetrics') = FeedOrder(dashboardMetrics)]_vars

----
(* One feed and its trend histories: many GetMetrics calls, a few changes  *)
(* of the cache size between them                                          *)

SnapshotsTaken == Len(added[SamplerArray("cacheBytes", "f1")])

NextHistory ==
    \/ inits < 1 /\ InitFeed("f1", "alpha")
    \/ /\ "f1" \in Known
       /\ ops - SnapshotsTaken < MaxCacheChanges
       /\ \E a \in HistoryCacheArgs : RecordCacheStats("f1", a[1], a[2], a[3])
    \/ /\ "f1" \in Known
       /\ SnapshotsTaken < HistoryCapacity + MaxExtraSnapshots
       /\ GetMetrics

SpecHistory == Init /\ [][NextHistory]_vars

Min(a, b) == IF a < b THEN a ELSE b
LastN(s, n) == SubSeq(s, Len(s) - n + 1, Len(s))

----
(* One feed and its three trend histories: many GetMetrics calls, a few    *)
(* messages, cache updates and LLM requests between them                   *)

MaxTrendChanges == 2

NextTrend ==
    \/ inits < 1 /\ InitFeed("f1", "alpha")
    \/ /\ "f1" \in Known
       /\ ops - SnapshotsTaken < MaxTrendChanges
       /\ RecordMessage("f1", 3)
    \/ /\ "f1" \in Known
       /\ ops - SnapshotsTaken < MaxTrendChanges
       /\ RecordCacheStats("f1", 2, 25, 4)
    \/ /\ "f1" \in Known
       /\ ops - SnapshotsTaken < MaxTrendChanges
       /\ RecordLLMRequest("f1", 100, 50, 200, 800, 3, FALSE)
    \/ /\ "f1" \in Known
       /\ SnapshotsTaken < HistoryCapacity + MaxExtraSnapshots
       /\ GetMetrics

SpecTrend == Init /\ [][NextTrend]_vars

\* what a GetMetrics step does to one trend history of feed f, v being the
\* value of the snapshot m that the history tracks
SampledOnce(m, f, kind, field, v) ==
    LET a == SamplerArray(kind, f)
        returned == Elems(m[field], heap')
    IN  /\ added'[a] = Append(added[a], v)
        /\ heap'[a] = LastN(Append(heap[a], v), Min(Len(heap[a]) + 1, HistoryCapacity))
        /\ returned = heap'[a]
        /\ Len(returned) = Min(Len(added'[a]), HistoryCapacity)
        /\ returned[Len(returned)] = v

----
(* One feed, its WebSocket status and the clock *)

MaxWSOps == 5
MaxWSTicks == 3

NextWS ==
    \/ inits < 1 /\ InitFeed("f1", "alpha")
    \/ /\ "f1" \in Known
       /\ ticks < MaxWSTicks
       /\ \E d \in TickSteps : Tick(d)
    \/ /\ "f1" \in Known
       /\ ops < MaxWSOps
       /\ \E connected \in BOOLEAN : RecordWSStatus("f1", connected)
    \/ "f1" \in Known /\ ops < MaxWSOps /\ GetMetrics
    \/ "f1" \in Known /\ ops < MaxWSOps /\ GetFeedMetrics("f1")

SpecWS == Init /\ [][NextWS]_vars

Returned(f) ==
    IF lastOp.op = "GetMetrics"
    THEN {dashboardMetrics[i] : i \in {j \in DOMAIN dashboardMetrics :
                                           dashboardMetrics[j].FeedID = f}}
    ELSE IF lastOp.op = "GetFeedMetrics" /\ lastOp.feed = f
    THEN {Deref(feedResult[i]) : i \in DOMAIN feedResult}
    ELSE {}

\* C23: for a feed that has been connected at least once, the
\* CurrentUptimeSeconds of every snapshot is the time elapsed since the most
\* recent change of the status from false to true, also when the status has
\* changed back to false since.
C23_UptimeSinceLastConnect ==
    \A f \in Known :
       statuses[f].connects > 0
       => \A m \in Returned(f) :
             FEq(m.CurrentUptimeSeconds, F(now - statuses[f].lastConnect))

\* C30: ReconnectsTotal is the number of times the connection was
\* re-established: the number of changes of the status from false to true
\* that followed an earlier connected period.
C30_ReconnectsCountReconnections ==
    \A f \in Known :
       feedMetrics[f].ReconnectsTotal =
          IF statuses[f].connects = 0 THEN 0 ELSE statuses[f].connects - 1

\* C25: in every snapshot of a feed with MessagesReceivedTotal > 0,
\* DropRatePercent is MessagesDroppedTotal / MessagesReceivedTotal * 100,
\* whatever the order of the RecordMessage and RecordPacketLoss calls made.
C25_DropRateCurrent ==
    \A f \in Known :
       \A m \in Returned(f) :
          m.MessagesReceivedTotal > 0
          => FEq(m.DropRatePercent,
                 FDiv(F(m.MessagesDroppedTotal * 100), F(m.MessagesReceivedTotal)))

----
(* The reader of the snapshots: it may overwrite what it was handed *)

HistoryFields == {"MsgRateHistory", "CacheBytesHistory", "GenTimeHistory"}
Scribble == F(-1)

\* the reader writes an element of a trend slice of a GetMetrics snapshot
MutateHistory(i, field, j) ==
    /\ dashboardMetrics[i][field] # NilRef
    /\ j \in DOMAIN heap[dashboardMetrics[i][field][1]]
    /\ heap' = [heap EXCEPT ![dashboardMetrics[i][field][1]][j] = Scribble]
    /\ lastOp' = Call("Mutate", dashboardMetrics[i].FeedID, field)
    /\ UNCHANGED <<collector, dashboardMetrics, feedResult>>

\* the reader writes scalar fields of a GetMetrics snapshot (its own struct)
MutateScalars(i) ==
    /\ dashboardMetrics' = [dashboardMetrics EXCEPT
           ![i].MessagesReceivedTotal = 99, ![i].CacheApproxBytes = 99, ![i].Name = "beta"]
    /\ lastOp' = Call("Mutate", dashboardMetrics[i].FeedID, "scalars")
    /\ UNCHANGED <<collector, heap, feedResult>>

\* the reader writes scalar fields through the pointer GetFeedMetrics returned
MutateThroughPointer ==
    /\ feedResult # NilRef
    /\ lastOp' = Call("Mutate", feedResult[1].feed, "pointer")
    /\ IF feedResult[1].target = "copy"
       THEN /\ feedResult' = Ref([feedResult[1] EXCEPT
                   !.value = <<[@[1] EXCEPT !.MessagesReceivedTotal = 99,
                                            !.CacheApproxBytes = 99]>>])
            /\ UNCHANGED collector
       ELSE /\ feedMetrics' = [feedMetrics EXCEPT ![feedResult[1].feed] =
                   [@ EXCEPT !.MessagesReceivedTotal = 99, !.CacheApproxBytes = 99]]
            /\ UNCHANGED <<feedResult, messageWindows, byteWindows, payloadSamples,
                           llmTokenSamples, startTimes, lastMsgTimes, msgRateHistory,
                           cacheBytesHist, genTimeHistory>>
    /\ UNCHANGED <<heap, dashboardMetrics>>

MutateSnapshot ==
    /\ Count
    /\ \/ \E i \in DOMAIN dashboardMetrics, field \in HistoryFields, j \in 1..HistoryCapacity :
              MutateHistory(i, field, j)
       \/ \E i \in DOMAIN dashboardMetrics : MutateScalars(i)
       \/ MutateThroughPointer
    /\ UNCHANGED <<now, lastSnapshot, recorded, requested, added>>

NextAlias ==
    \/ inits < 1 /\ InitFeed("f1", "alpha")
    \/ ops < MaxAliasOps /\ \E a \in HistoryCacheArgs : RecordCacheStats("f1", a[1], a[2], a[3])
    \/ ops < MaxAliasOps /\ \E size \in PayloadSizes : RecordMessage("f1", size)
    \/ ops < MaxAliasOps /\ GetMetrics
    \/ ops < MaxAliasOps /\ GetFeedMetrics("f1")
    \/ ops < MaxAliasOps /\ MutateSnapshot

SpecAlias == Init /\ [][NextAlias]_vars

\* what GetMetrics would return if called now: each feed's snapshot with the
\* elements of its three trend slices
LaterGetMetrics ==
    [f \in Known |->
        LET m == MetricsOf(f)
            hp == SampleHistories(heap, Known)
        IN  <<m, Elems(m.MsgRateHistory, hp), Elems(m.CacheBytesHistory, hp),
              Elems(m.GenTimeHistory, hp)>>]

\* what GetFeedMetrics would return if called now
LaterGetFeedMetrics == [f \in Known |-> Derived(f)]

\* C9: whatever the reader writes into a snapshot it was handed (scalar
\* fields, elements of the three trend slices), the collector's state and
\* the results of later GetMetrics / GetFeedMetrics calls stay the same.
C9_SnapshotsDoNotAlias ==
    [][lastOp'.op = "Mutate" =>
          /\ collector' = collector
          /\ \A a \in SamplerArrays : heap'[a] = heap[a]
          /\ LaterGetMetrics' = LaterGetMetrics
          /\ LaterGetFeedMetrics' = LaterGetFeedMetrics]_vars

C9_Witness ==
    /\ lastOp.op = "Mutate"
    /\ lastOp.arg = "CacheBytesHistory"
    /\ \E i \in DOMAIN dashboardMetrics :
          /\ Scribble \in {Elems(dashboardMetrics[i].CacheBytesHistory, heap)[j] :
                               j \in DOMAIN Elems(dashboardMetrics[i].CacheBytesHistory, heap)}
          /\ heap[SamplerArray("cacheBytes", dashboardMetrics[i].FeedID)] # <<>>
          /\ feedMetrics[dashboardMetrics[i].FeedID].CacheApproxBytes > 0

----
(* One feed and its payload and token samplers, with steps of time long    *)
(* enough for samples to leave the retention window                        *)

MaxSamplerOps == 4
MaxSamplerTicks == 2

SamplerTickSteps == {200, 301}
TokenArgs == {<<100, 50, 200, 800, 3, FALSE>>,
              <<0, 0, 0, 0, 0, TRUE>>,
              <<-7, -4, -20, -80, 1, TRUE>>}

NextSamplers ==
    \/ ticks < MaxSamplerTicks /\ \E d \in SamplerTickSteps : Tick(d)
    \/ inits < 1 /\ InitFeed("f1", "alpha")
    \/ ops < MaxSamplerOps /\ \E a \in TokenArgs :
          RecordLLMRequest("f1", a[1], a[2], a[3], a[4], a[5], a[6])
    \/ ops < MaxSamplerOps /\ \E size \in PayloadSizes : RecordMessage("f1", size)
    \/ ops < MaxSamplerOps /\ GetMetrics

SpecSamplers == Init /\ [][NextSamplers]_vars

PositiveSum(s) == SumSeq([i \in DOMAIN s |-> IF s[i] > 0 THEN s[i] ELSE 0])

\* C12: after any sequence of tokenSampler.Add calls, Stats() reports as
\* inputTotal (outputTotal) the sum of the strictly positive inputTokens
\* (outputTokens) of all calls ever made, whatever has been pruned from the
\* rolling log, and as inputLast, outputLast, ttftLast and genTimeLast the
\* arguments of the most recent call unchanged.
C12_TokenTotalsAndLasts ==
    \A f \in DOMAIN llmTokenSamples :
       LET st == TokenStats(llmTokenSamples[f])
           r == requested[f]
           n == Len(r)
       IN  /\ st.inputTotal = PositiveSum([i \in DOMAIN r |-> r[i].inputTokens])
           /\ st.outputTotal = PositiveSum([i \in DOMAIN r |-> r[i].outputTokens])
           /\ n > 0 => /\ st.inputLast = r[n].inputTokens
                       /\ st.outputLast = r[n].outputTokens
                       /\ FEq(st.ttftLast, F(r[n].ttftMs))
                       /\ FEq(st.genTimeLast, F(r[n].genTimeMs))

\* three requests, the first already pruned from the rolling log, the last
\* with non-positive arguments
C12_Witness ==
    /\ lastOp.op = "RecordLLMRequest"
    /\ Len(requested["f1"]) = 3
    /\ requested["f1"][1].inputTokens = 100
    /\ requested["f1"][3].inputTokens <= 0
    /\ Len(llmTokenSamples["f1"].times) = 2
    /\ TokenStats(llmTokenSamples["f1"]).inputTotal >= 100

Positives(r) == {j \in DOMAIN r : r[j].inputTokens > 0}
LastOf(S) == CHOOSE j \in S : \A k \in S : k <= j

\* C15: once a request of a feed has reported inputTokens > 0, GetMetrics
\* reports ContextUtilizationPercent = n / 128000 * 100, where n is the
\* inputTokens of the most recent request that reported a positive count:
\* the last request's if it is positive, otherwise the value retained from
\* the earlier one.
C15_ContextUtilizationRetained ==
    lastOp.op = "GetMetrics" =>
        \A i \in DOMAIN dashboardMetrics :
           LET m == dashboardMetrics[i]
               r == requested[m.FeedID]
           IN  Positives(r) # {} =>
                  FEq(m.ContextUtilizationPercent,
                      FDiv(F(r[LastOf(Positives(r))].inputTokens * 100),
                           F(modelContextLimit)))

\* C20: right after an Add to a payload sampler (RecordMessage) or a token
\* sampler (RecordLLMRequest), every sample the sampler retains has a time
\* stamp strictly less than the retention duration, 5 minutes, before the
\* time of the Add.
C20_SamplesWithinRetention ==
    /\ (lastOp.op = "RecordMessage" /\ lastOp.feed \in Known) =>
          \A i \in DOMAIN payloadSamples[lastOp.feed].times :
             payloadSamples[lastOp.feed].times[i] > now - SampleRetention
    /\ (lastOp.op = "RecordLLMRequest" /\ lastOp.feed \in Known) =>
          \A i \in DOMAIN llmTokenSamples[lastOp.feed].times :
             llmTokenSamples[lastOp.feed].times[i] > now - SampleRetention

----
(* One feed and a burst of LLM requests, more than the token sampler's     *)
(* configured maximum, within a few seconds                                *)

MaxExtraRequests == 1
MaxBurstTicks == 1

BurstTickSteps == {1}

NextTokenLog ==
    \/ inits < 1 /\ InitFeed("f1", "alpha")
    \/ /\ "f1" \in Known
       /\ ticks < MaxBurstTicks
       /\ \E d \in BurstTickSteps : Tick(d)
    \/ /\ "f1" \in Known
       /\ ops < TokenMaxSamples + MaxExtraRequests
       /\ RecordLLMRequest("f1", 100, 50, 200, 800, 3, FALSE)

SpecTokenLog == Init /\ [][NextTokenLog]_vars

\* C19: the rolling latency log of a token sampler never holds more than
\* the sampler's configured maximum, 100 samples.
C19_TokenLogBounded ==
    \A f \in DOMAIN llmTokenSamples :
       /\ llmTokenSamples[f].maxSize = TokenMaxSamples
       /\ Len(llmTokenSamples[f].times) <= llmTokenSamples[f].maxSize
       /\ Len(llmTokenSamples[f].ttfts) <= llmTokenSamples[f].maxSize
       /\ Len(llmTokenSamples[f].genTimes) <= llmTokenSamples[f].maxSize

----
(* One feed and a burst of messages, more than the payload sampler's      *)
(* configured maximum, within a few seconds                               *)

MaxExtraMessages == 2
MaxVariedMessages == 2
MaxPayloadTicks == 1

BurstPayloadSize == 3

\* the first messages of the burst have any size, the rest one size; the
\* clock moves while the log is still short
NextPayloadLog ==
    \/ inits < 1 /\ InitFeed("f1", "alpha")
    \/ /\ "f1" \in Known
       /\ ticks < MaxPayloadTicks
       /\ ops <= MaxVariedMessages
       /\ \E d \in BurstTickSteps : Tick(d)
    \/ /\ "f1" \in Known
       /\ ops < MaxVariedMessages
       /\ \E size \in PayloadSizes : RecordMessage("f1", size)
    \/ /\ "f1" \in Known
       /\ ops >= MaxVariedMessages
       /\ ops < PayloadMaxSamples + MaxExtraMessages
       /\ RecordMessage("f1", BurstPayloadSize)

SpecPayloadLog == Init /\ [][NextPayloadLog]_vars

\* the sizes and the times of the last n messages recorded for f
LastSizes(f, n) ==
    LET r == LastN(recorded[f], n) IN [i \in 1..n |-> r[i].size]
LastTimes(f, n) ==
    LET r == LastN(recorded[f], n) IN [i \in 1..n |-> r[i].timestamp]

\* C21: a payload sampler never retains more than its configured maximum,
\* 1000 samples, and when the cap triggers the oldest retained sample is the
\* one dropped: during a burst shorter than the retention period the log is
\* the last min(n, 1000) of the n sizes added, with their times, oldest first.
C21_PayloadLogBounded ==
    \A f \in DOMAIN payloadSamples :
       LET p == payloadSamples[f]
           n == Min(Len(recorded[f]), PayloadMaxSamples)
       IN  /\ p.maxSize = PayloadMaxSamples
           /\ Len(p.samples) <= p.maxSize
           /\ Len(p.times) = Len(p.samples)
           /\ p.samples = LastSizes(f, n)
           /\ p.times = LastTimes(f, n)

\* the cap has dropped samples, the first of them of another size than the
\* ones that follow
C21_Witness ==
    /\ "f1" \in DOMAIN payloadSamples
    /\ Len(recorded["f1"]) > PayloadMaxSamples
    /\ recorded["f1"][1].size # BurstPayloadSize
    /\ Len(payloadSamples["f1"].samples) = PayloadMaxSamples
    /\ lastOp.op = "RecordMessage"

----
(* FeedDataState: the entries the application keeps per feed *)

MaxEntries == 50
MaxAddCalls == 53
MaxOtherFeedEntries == 2

\* the entry made from the n-th feed-data message
newFeedEntry(f, n) == [FeedID |-> f, Data |-> n]

\* f.Entries[feedID]: a missing key yields the nil slice
EntriesOf(E, f) == IF f \in DOMAIN E THEN E[f] ELSE <<>>

AddEntryDropsNewest(entries, entry) ==
    LET all == <<entry>> \o entries
    IN  IF Len(all) > MaxEntries
        THEN [entries |-> SubSeq(all, 2, MaxEntries + 1), evicted |-> 1]
        ELSE [entries |-> all, evicted |-> 0]

\* the slice AddEntry stores and the count it returns
AddEntryResult(entries, entry) ==
    LET all == <<entry>> \o entries
    IN  IF Len(all) > MaxEntries
        THEN [entries |-> SubSeq(all, 1, MaxEntries), evicted |-> Len(all) - MaxEntries]
        ELSE [entries |-> all, evicted |-> 0]

AddEntry(f, entry) ==
    /\ LET r == AddEntryResult(EntriesOf(Entries, f), entry)
       IN  /\ Entries' = Put(Entries, f, r.entries)
           /\ evicted' = r.evicted
    /\ addCalls' = addCalls + 1
    /\ lastOp' = Call("AddEntry", f, entry)
    /\ UNCHANGED <<now, collector, heap, added, dashboardMetrics, feedResult,
                   lastSnapshot, recorded, requested, statuses, samplerResult, pipeline, goroutines, ops,
                   inits, ticks, Feeds, wsClient>>

NextEntries ==
    \/ addCalls < MaxAddCalls /\ AddEntry("f1", newFeedEntry("f1", addCalls))
    \/ /\ addCalls < MaxAddCalls
       /\ Len(EntriesOf(Entries, "f2")) < MaxOtherFeedEntries
       /\ AddEntry("f2", newFeedEntry("f2", addCalls))

SpecEntries == Init /\ [][NextEntries]_vars

\* C14: an AddEntry call puts the new entry at index 0 in front of the
\* entries the feed had, in their order, keeps at most 50 of them, and
\* returns the number of entries it removed: 1 if the feed already had 50
\* (its length then stays 50) and 0 otherwise.
C14_AddEntryBounded ==
    [][lastOp'.op = "AddEntry" =>
          LET f == lastOp'.feed
              old == EntriesOf(Entries, f)
              new == Entries'[f]
          IN  /\ Len(old) <= MaxEntries
              /\ Len(new) <= MaxEntries
              /\ new[1] = lastOp'.arg
              /\ SubSeq(new, 2, Len(new)) = SubSeq(old, 1, Len(new) - 1)
              /\ evicted' = Len(old) + 1 - Len(new)
              /\ evicted' = IF Len(old) = MaxEntries THEN 1 ELSE 0
              /\ Len(old) = MaxEntries => Len(new) = MaxEntries
              /\ \A g \in DOMAIN Entries : g # f => Entries'[g] = Entries[g]]_vars

\* the feed was full before the call: one entry left, the length stayed 50
C14_Witness ==
    /\ lastOp.op = "AddEntry"
    /\ evicted = 1
    /\ Len(Entries["f1"]) = MaxEntries
    /\ Entries["f1"][1] = lastOp.arg
    /\ Entries["f1"][MaxEntries].Data > 0

----
(* The application's event loop: Model.Update handles one message at a    *)
(* time, and the handlers below are the ones that call the Collector or   *)
(* change FeedDataState.Entries, FeedDataState.Feeds or Model.wsClient    *)

MaxAppEvents == 3
MaxAppTicks == 1

\* the feed lists a FeedsMsg may carry
AllFeeds == <<[ID |-> "f1", Name |-> "alpha"], [ID |-> "f2", Name |-> "beta"]>>
FeedLists == {SubSeq(AllFeeds, 1, n) : n \in 0..Len(AllFeeds)}
\* len(msg.Data) of a FeedDataMsg
DataLens == {0, 3}
WSStatuses == {"connected", "disconnected", "connecting"}

FeedIDsOf(feeds) == {feeds[i].ID : i \in DOMAIN feeds}
NameIn(feeds, f) ==
    feeds[CHOOSE i \in DOMAIN feeds :
             feeds[i].ID = f /\ \A j \in DOMAIN feeds : feeds[j].ID = f => i <= j].Name

\* delete(m, k)
Delete(m, k) == [x \in (DOMAIN m) \ {k} |-> m[x]]

\* InitFeed for every feed of new, whose names are given by name
CreateFeeds(new, name) ==
    LET With(m, mk(_)) == [x \in (DOMAIN m) \cup new |-> IF x \in new THEN mk(x) ELSE m[x]]
        fm(x) == newFeedMetrics(x, name[x], now)
        sw(x) == newSlidingWindow(WindowRetention)
        ps(x) == newPayloadSampler(PayloadMaxSamples, SampleRetention)
        ts(x) == newTokenSampler(TokenMaxSamples, SampleRetention)
        st(x) == now
        mr(x) == newHistorySampler("msgRate", x, HistoryCapacity)
        cb(x) == newHistorySampler("cacheBytes", x, HistoryCapacity)
        gt(x) == newHistorySampler("genTime", x, HistoryCapacity)
    IN  /\ feedMetrics' = With(feedMetrics, fm)
        /\ messageWindows' = With(messageWindows, sw)
        /\ byteWindows' = With(byteWindows, sw)
        /\ payloadSamples' = With(payloadSamples, ps)
        /\ llmTokenSamples' = With(llmTokenSamples, ts)
        /\ startTimes' = With(startTimes, st)
        /\ msgRateHistory' = With(msgRateHistory, mr)
        /\ cacheBytesHist' = With(cacheBytesHist, cb)
        /\ genTimeHistory' = With(genTimeHistory, gt)
        /\ heap' = [a \in Addr |->
                      IF a.owner = "sampler" /\ a.feed \in new THEN <<>> ELSE heap[a]]
        /\ added' = [a \in SamplerArrays |-> IF a.feed \in new THEN <<>> ELSE added[a]]
        /\ UNCHANGED lastMsgTimes

\* handleFeedsResult without an error: the feed list is stored and InitFeed
\* is called for every feed of it
handleFeedsResult(feeds) ==
    /\ Feeds' = feeds
    /\ CreateFeeds(FeedIDsOf(feeds) \ Known,
                   [f \in FeedIDsOf(feeds) |-> NameIn(feeds, f)])
    /\ inits' = inits + Len(feeds)
    /\ ops' = ops + 1
    /\ lastOp' = Call("handleFeedsResult", Nil, feeds)
    /\ UNCHANGED <<now, dashboardMetrics, feedResult, lastSnapshot, recorded,
                   requested, statuses, samplerResult, ctx, ai, Entries, evicted, addCalls, wsClient,
                   ticks, goroutines>>

\* handleWSConnected: the client of the message becomes Model.wsClient
handleWSConnected(client) ==
    /\ wsClient' = IF client THEN TRUE ELSE wsClient
    /\ ops' = ops + 1
    /\ lastOp' = Call("handleWSConnected", Nil, client)
    /\ UNCHANGED <<now, collector, heap, added, dashboardMetrics, feedResult,
                   lastSnapshot, recorded, requested, statuses, samplerResult, ctx, ai, Entries, evicted,
                   addCalls, Feeds, inits, ticks, goroutines>>

\* RecordWSStatus's assignments to *fm
WSStatusFm(fm, connected) ==
    [fm EXCEPT !.WSConnected = connected,
               !.ReconnectsTotal = IF ~connected /\ fm.WSConnected THEN @ + 1 ELSE @]

\* handleWSStatus: RecordWSStatus for every feed of the list when the status
\* is "connected" or "disconnected"
handleWSStatus(status) ==
    LET ids == IF status \in {"connected", "disconnected"}
               THEN FeedIDsOf(Feeds) \cap Known ELSE {}
        connected == (status = "connected")
    IN  /\ wsClient' = IF status = "disconnected" THEN FALSE ELSE wsClient
        /\ feedMetrics' = [f \in Known |->
               IF f \in ids THEN WSStatusFm(feedMetrics[f], connected)
               ELSE feedMetrics[f]]
        /\ startTimes' = [f \in DOMAIN startTimes |->
               IF f \in ids /\ feedMetrics[f].WSConnected # connected
               THEN now ELSE startTimes[f]]
        /\ statuses' = [f \in FeedIDs |->
               IF f \in ids THEN StatusCall(statuses[f], connected, now)
               ELSE statuses[f]]
        /\ ops' = ops + 1
        /\ lastOp' = Call("handleWSStatus", Nil, status)
        /\ UNCHANGED <<now, messageWindows, byteWindows, payloadSamples,
                       llmTokenSamples, lastMsgTimes, msgRateHistory, cacheBytesHist,
                       genTimeHistory, heap, added, dashboardMetrics, feedResult,
                       lastSnapshot, recorded, requested, Entries, evicted,
                       addCalls, Feeds, inits, ticks, goroutines, samplerResult, ctx, ai>>

\* cacheBytes of handleFeedData: the sum of len(e.Data) over the entries
CacheBytesOf(entries) == SumSeq([i \in DOMAIN entries |-> entries[i].Data])

\* handleFeedData: InitFeed, RecordMessage(len(msg.Data)),
\* RecordWSStatus(true), AddEntry, RecordContextEviction when entries were
\* evicted, RecordCacheStats(len(entries), cacheBytes, 0). The Data of an
\* entry is kept as its length.
handleFeedData(f, name, dataLen) ==
    LET isNew == f \notin Known
        fm0 == IF isNew THEN newFeedMetrics(f, name, now) ELSE feedMetrics[f]
        fm1 == MessageFm(fm0, dataLen, now)
        fm2 == WSStatusFm(fm1, TRUE)
        r == AddEntryResult(EntriesOf(Entries, f), newFeedEntry(f, dataLen))
        fm3 == IF r.evicted > 0
               THEN [fm2 EXCEPT !.ContextEvictionsTotal = @ + r.evicted] ELSE fm2
        fm4 == [fm3 EXCEPT !.CacheItemsCurrent = Len(r.entries),
                           !.CacheApproxBytes = CacheBytesOf(r.entries),
                           !.OldestItemAgeSeconds = F(0)]
        mw == IF isNew THEN newSlidingWindow(WindowRetention) ELSE messageWindows[f]
        bw == IF isNew THEN newSlidingWindow(WindowRetention) ELSE byteWindows[f]
        ps == IF isNew THEN newPayloadSampler(PayloadMaxSamples, SampleRetention)
              ELSE payloadSamples[f]
    IN  /\ feedMetrics' = Put(feedMetrics, f, fm4)
        /\ messageWindows' = Put(messageWindows, f, WindowAdd(mw, 1, now))
        /\ byteWindows' = Put(byteWindows, f, WindowAdd(bw, dataLen, now))
        /\ payloadSamples' = Put(payloadSamples, f, PayloadAdd(ps, dataLen, now))
        /\ lastMsgTimes' = Put(lastMsgTimes, f, now)
        /\ startTimes' = IF isNew \/ ~fm1.WSConnected
                         THEN Put(startTimes, f, now) ELSE startTimes
        /\ IF isNew
           THEN /\ llmTokenSamples' =
                      Put(llmTokenSamples, f, newTokenSampler(TokenMaxSamples, SampleRetention))
                /\ msgRateHistory' =
                      Put(msgRateHistory, f, newHistorySampler("msgRate", f, HistoryCapacity))
                /\ cacheBytesHist' =
                      Put(cacheBytesHist, f, newHistorySampler("cacheBytes", f, HistoryCapacity))
                /\ genTimeHistory' =
                      Put(genTimeHistory, f, newHistorySampler("genTime", f, HistoryCapacity))
                /\ heap' = [a \in Addr |->
                              IF a.owner = "sampler" /\ a.feed = f THEN <<>> ELSE heap[a]]
                /\ added' = [a \in SamplerArrays |->
                               IF a.feed = f THEN <<>> ELSE added[a]]
           ELSE UNCHANGED <<llmTokenSamples, msgRateHistory, cacheBytesHist,
                            genTimeHistory, heap, added>>
        /\ recorded' = [recorded EXCEPT ![f] =
               Append(@, [timestamp |-> now, size |-> dataLen])]
        /\ statuses' = [statuses EXCEPT ![f] = StatusCall(@, TRUE, now)]
        /\ Entries' = Put(Entries, f, r.entries)
        /\ evicted' = r.evicted
        /\ addCalls' = addCalls + 1
        /\ inits' = inits + 1
        /\ ops' = ops + 1
        /\ lastOp' = Call("handleFeedData", f, dataLen)
        /\ UNCHANGED <<now, dashboardMetrics, feedResult, lastSnapshot, requested,
                       Feeds, wsClient, ticks, goroutines, samplerResult, ctx, ai>>

\* handleSubscribeResult without an error: with a client, an action other
\* than "subscribe" deletes the entries of the feed
handleSubscribeResult(action, f) ==
    /\ Entries' = IF wsClient /\ action # "subscribe" THEN Delete(Entries, f)
                  ELSE Entries
    /\ ops' = ops + 1
    /\ lastOp' = Call("handleSubscribeResult", f, action)
    /\ UNCHANGED <<now, collector, heap, added, dashboardMetrics, feedResult,
                   lastSnapshot, recorded, requested, statuses, samplerResult, ctx, ai, evicted, addCalls,
                   Feeds, wsClient, inits, ticks, goroutines>>

handleFeedDeleteForgets(f) ==
    /\ Entries' = Delete(Entries, f)
    /\ feedMetrics' = Delete(feedMetrics, f)
    /\ ops' = ops + 1
    /\ lastOp' = Call("handleFeedDelete", f, Nil)
    /\ UNCHANGED <<now, messageWindows, byteWindows, payloadSamples,
                   llmTokenSamples, startTimes, lastMsgTimes, msgRateHistory,
                   cacheBytesHist, genTimeHistory, heap, added, dashboardMetrics,
                   feedResult, lastSnapshot, recorded, requested, statuses, samplerResult, ctx, ai, evicted,
                   addCalls, Feeds, wsClient, inits, ticks, goroutines>>

\* handleFeedDelete without an error: the entries of the feed are deleted
handleFeedDelete(f) ==
    /\ Entries' = Delete(Entries, f)
    /\ ops' = ops + 1
    /\ lastOp' = Call("handleFeedDelete", f, Nil)
    /\ UNCHANGED <<now, collector, heap, added, dashboardMetrics, feedResult,
                   lastSnapshot, recorded, requested, statuses, samplerResult, ctx, ai, evicted, addCalls,
                   Feeds, wsClient, inits, ticks, goroutines>>

\* handleLogout: the feed list, the entries and the client are dropped
handleLogout ==
    /\ Feeds' = <<>>
    /\ Entries' = <<>>
    /\ wsClient' = FALSE
    /\ ctx' = IF wsClient THEN "done" ELSE ctx
    /\ ai' = [ai EXCEPT !.Subscriptions = <<>>, !.SelectedFeed = ""]
    /\ ops' = ops + 1
    /\ lastOp' = Call("handleLogout", Nil, Nil)
    /\ UNCHANGED <<now, collector, heap, added, dashboardMetrics, feedResult,
                   lastSnapshot, recorded, requested, statuses, samplerResult, evicted, addCalls,
                   inits, ticks, goroutines>>

\* handleReconnect of a logged-in user: the client is closed and dropped
handleReconnect ==
    /\ wsClient' = FALSE
    /\ ctx' = IF wsClient THEN "done" ELSE ctx
    /\ ops' = ops + 1
    /\ lastOp' = Call("handleReconnect", Nil, Nil)
    /\ UNCHANGED <<now, collector, heap, added, dashboardMetrics, feedResult,
                   lastSnapshot, recorded, requested, statuses, samplerResult, ai, Entries, evicted,
                   addCalls, Feeds, inits, ticks, goroutines>>

\* Model.Update on one message; DashboardTickMsg calls GetMetrics and
\* PacketDroppedMsg calls RecordPacketLoss. The message is an input here and
\* the command Update returns is not run
Update ==
    \/ \E feeds \in FeedLists : handleFeedsResult(feeds) /\ UNCHANGED runtime
    \/ \E client \in BOOLEAN : handleWSConnected(client) /\ UNCHANGED runtime
    \/ \E status \in WSStatuses : handleWSStatus(status) /\ UNCHANGED runtime
    \/ \E f \in FeedIDs, dataLen \in DataLens :
          handleFeedData(f, NameIn(AllFeeds, f), dataLen) /\ UNCHANGED runtime
    \/ \E f \in FeedIDs, action \in {"subscribe", "unsubscribe"} :
          handleSubscribeResult(action, f) /\ UNCHANGED runtime
    \/ \E f \in FeedIDs : handleFeedDelete(f) /\ UNCHANGED runtime
    \/ handleLogout /\ UNCHANGED runtime
    \/ handleReconnect /\ UNCHANGED runtime
    \/ \E f \in FeedIDs : RecordPacketLoss(f)
    \/ GetMetrics

NextApp ==
    \/ ticks < MaxAppTicks /\ \E d \in TickSteps : Tick(d)
    \/ ops < MaxAppEvents /\ Update
    \/ ops < MaxAppEvents /\ \E f \in FeedIDs : GetFeedMetrics(f)

SpecApp == Init /\ [][NextApp]_vars

\* the feeds a step calls InitFeed for
Initialized(op) ==
    IF op.op = "InitFeed" \/ op.op = "handleFeedData" THEN {op.feed}
    ELSE IF op.op = "handleFeedsResult" THEN FeedIDsOf(op.arg)
    ELSE {}

\* C24: the set of feeds of the collector only grows. A feed InitFeed was
\* called for is known from then on, whatever the application handles
\* afterwards (feed deletion, unsubscribe, WebSocket disconnect, logout):
\* every GetMetrics result has a snapshot for each known feed and
\* GetFeedMetrics of a known feed returns that feed's snapshot, not nil.
C24_FeedsOnlyGrow ==
    [][/\ Known \subseteq DOMAIN feedMetrics'
       /\ Initialized(lastOp') \subseteq DOMAIN feedMetrics'
       /\ lastOp'.op = "GetMetrics"
          => \A f \in Known :
                \E i \in DOMAIN dashboardMetrics' : dashboardMetrics'[i].FeedID = f
       /\ (lastOp'.op = "GetFeedMetrics" /\ lastOp'.feed \in Known)
          => /\ feedResult' # NilRef
             /\ feedResult'[1].value[1].FeedID = lastOp'.feed]_vars

\* a snapshot of a feed taken after its entries were deleted
C24_Witness ==
    /\ lastOp.op = "GetFeedMetrics"
    /\ feedResult # NilRef
    /\ lastOp.feed \notin DOMAIN Entries
    /\ feedMetrics[lastOp.feed].MessagesReceivedTotal > 0

\* C29: in every state of the event loop a feed's CacheItemsCurrent is the
\* number of entries FeedDataState.Entries holds for the feed, at most 50,
\* also after an unsubscribe, a feed deletion or a logout removed the
\* feed's entries.
C29_CacheItemsAreEntries ==
    \A f \in Known :
       /\ feedMetrics[f].CacheItemsCurrent = Len(EntriesOf(Entries, f))
       /\ feedMetrics[f].CacheItemsCurrent <= MaxEntries

----
(* The sampler methods called directly, with any argument *)

MaxStatsOps == 4
MaxStatsTicks == 1

\* the windowDuration arguments of Rate, in seconds
RateDurations == {0, 10}

\* w.Rate(windowDuration) on a sliding window of feed f
CallRate(kind, f, windowDuration) ==
    LET w == IF kind = "msgWindow" THEN messageWindows[f] ELSE byteWindows[f]
    IN  /\ samplerResult' =
              Ref([method |-> "Rate", empty |-> prune(w, now).samples = <<>>,
                   values |-> <<Rate(w, windowDuration, now)>>])
        /\ messageWindows' = IF kind = "msgWindow"
                             THEN [messageWindows EXCEPT ![f] = prune(@, now)]
                             ELSE messageWindows
        /\ byteWindows' = IF kind = "byteWindow"
                          THEN [byteWindows EXCEPT ![f] = prune(@, now)]
                          ELSE byteWindows
        /\ ops' = ops + 1
        /\ lastOp' = Call("Rate", f, windowDuration)
        /\ UNCHANGED <<now, feedMetrics, payloadSamples, llmTokenSamples, startTimes,
                       lastMsgTimes, msgRateHistory, cacheBytesHist, genTimeHistory,
                       heap, added, dashboardMetrics, feedResult, lastSnapshot,
                       recorded, requested, statuses, ticks, inits, goroutines, app,
                       pipeline>>

\* p.Stats() on the payload sampler of feed f
CallPayloadStats(f) ==
    /\ samplerResult' =
          Ref([method |-> "Stats", empty |-> Len(payloadSamples[f].samples) = 0,
               values |-> <<PayloadStats(payloadSamples[f])>>])
    /\ ops' = ops + 1
    /\ lastOp' = Call("payloadSampler.Stats", f, Nil)
    /\ UNCHANGED <<now, collector, heap, added, dashboardMetrics, feedResult,
                   lastSnapshot, recorded, requested, statuses, ticks, inits,
                   goroutines, app, pipeline>>

\* t.Stats() on the token sampler of feed f: ttftAvg and genTimeAvg
CallTokenStats(f) ==
    /\ samplerResult' =
          LET st == TokenStats(llmTokenSamples[f])
          IN  Ref([method |-> "Stats", empty |-> Len(llmTokenSamples[f].ttfts) = 0,
                   values |-> <<st.ttftAvg, st.genTimeAvg>>])
    /\ ops' = ops + 1
    /\ lastOp' = Call("tokenSampler.Stats", f, Nil)
    /\ UNCHANGED <<now, collector, heap, added, dashboardMetrics, feedResult,
                   lastSnapshot, recorded, requested, statuses, ticks, inits,
                   goroutines, app, pipeline>>

NextStats ==
    \/ inits < 1 /\ InitFeed("f1", "alpha")
    \/ /\ "f1" \in Known
       /\ ticks < MaxStatsTicks
       /\ \E d \in WindowTickSteps : Tick(d)
    \/ /\ "f1" \in Known
       /\ ops < MaxStatsOps
       /\ \E size \in PayloadSizes : RecordMessage("f1", size)
    \/ /\ "f1" \in Known
       /\ ops < MaxStatsOps
       /\ \E a \in TokenArgs : RecordLLMRequest("f1", a[1], a[2], a[3], a[4], a[5], a[6])
    \/ /\ "f1" \in Known
       /\ ops < MaxStatsOps
       /\ \E kind \in {"msgWindow", "byteWindow"}, d \in RateDurations :
             CallRate(kind, "f1", d)
    \/ "f1" \in Known /\ ops < MaxStatsOps /\ CallPayloadStats("f1")
    \/ "f1" \in Known /\ ops < MaxStatsOps /\ CallTokenStats("f1")

SpecStats == Init /\ [][NextStats]_vars

\* C28: no division by zero: Rate with any windowDuration, 0 included, and
\* any log, and the Stats of a payload sampler and of a token sampler with
\* any log, the empty one included, evaluate no division whose divisor is
\* zero (every value returned has a denominator other than 0), and the
\* averages of an empty log are exactly 0.
C28_NoDivisionByZero ==
    \A i \in DOMAIN samplerResult :
       \A j \in DOMAIN samplerResult[i].values :
          LET v == samplerResult[i].values[j]
          IN  /\ v[2] # 0
              /\ (samplerResult[i].method = "Stats" /\ samplerResult[i].empty)
                 => FEq(v, F(0))

----
(* One feed receiving more feed data than its entry buffer holds *)

MaxExtraData == 2
MaxOtherEvents == 2

\* the count arguments of direct RecordContextEviction calls
DirectEvictionCounts == {-1, 0, 2}

\* feed data for f1, with a deletion of its entries or a direct
\* RecordContextEviction call now and then
NextEvictions ==
    \/ /\ addCalls < MaxEntries + MaxExtraData
       /\ handleFeedData("f1", "alpha", 3)
       /\ UNCHANGED runtime
    \/ /\ ops - addCalls < MaxOtherEvents
       /\ handleFeedDelete("f1")
       /\ UNCHANGED runtime
    \/ /\ ops - addCalls < MaxOtherEvents
       /\ \E count \in DirectEvictionCounts : RecordContextEviction("f1", count)

SpecEvictions == Init /\ [][NextEvictions]_vars

EvictionsTotal(fms, f) ==
    IF f \in DOMAIN fms THEN fms[f].ContextEvictionsTotal ELSE 0

\* C33: RecordContextEviction(feed, count) adds count to
\* ContextEvictionsTotal when count > 0 and changes nothing otherwise, and
\* handling a FeedDataMsg adds to ContextEvictionsTotal the number of entries
\* that capacity truncation removed from the feed's entry buffer in that
\* step; no other step changes the counter, so it is the total number of
\* entries truncated (plus the counts passed to it directly).
C33_EvictionAttribution ==
    [][\A f \in FeedIDs :
          LET direct == lastOp'.op = "RecordContextEviction" /\ lastOp'.feed = f
              data == lastOp'.op = "handleFeedData" /\ lastOp'.feed = f
              truncated == Len(EntriesOf(Entries, f)) + 1 - Len(EntriesOf(Entries', f))
          IN  /\ EvictionsTotal(feedMetrics', f) =
                    EvictionsTotal(feedMetrics, f)
                    + (IF data THEN truncated ELSE 0)
                    + (IF direct /\ f \in Known /\ lastOp'.arg > 0 THEN lastOp'.arg ELSE 0)
              /\ (direct /\ lastOp'.arg <= 0) => UNCHANGED collector]_vars

\* the buffer was full and feed data evicted an entry, twice
C33_Witness ==
    /\ lastOp.op = "handleFeedData"
    /\ evicted = 1
    /\ Len(EntriesOf(Entries, "f1")) = MaxEntries
    /\ addCalls = MaxEntries + 2
    /\ feedMetrics["f1"].ContextEvictionsTotal = 2

----
(* Two feeds, both initialized, and every kind of ingestion call on either *)

MaxIsolationOps == 2

NextIsolation ==
    \/ ticks < MaxTicks /\ \E d \in TickSteps : Tick(d)
    \/ inits < MaxInits /\ \E f \in FeedIDs, name \in Names : InitFeed(f, name)
    \/ ops < MaxIsolationOps /\ \E f \in FeedIDs : Ingest(f)
    \/ ops < MaxIsolationOps /\ GetMetrics
    \/ ops < MaxIsolationOps /\ \E f \in FeedIDs : GetFeedMetrics(f)

SpecIsolation == Init /\ [][NextIsolation]_vars

\* the map m2 holds for key g what the map m1 holds for it
SameAt(m1, m2, g) ==
    /\ (g \in DOMAIN m1) <=> (g \in DOMAIN m2)
    /\ g \in DOMAIN m1 => m2[g] = m1[g]

\* C34: an ingestion call made with feed ID f leaves every stored field,
\* sliding window, sampler and trend history of every other feed g
\* unchanged, and with them the snapshot of g.
C34_FeedIsolation ==
    [][lastOp'.op \in IngestOps =>
          \A g \in FeedIDs \ {lastOp'.feed} :
             /\ SameAt(feedMetrics, feedMetrics', g)
             /\ SameAt(messageWindows, messageWindows', g)
             /\ SameAt(byteWindows, byteWindows', g)
             /\ SameAt(payloadSamples, payloadSamples', g)
             /\ SameAt(llmTokenSamples, llmTokenSamples', g)
             /\ SameAt(startTimes, startTimes', g)
             /\ SameAt(lastMsgTimes, lastMsgTimes', g)
             /\ SameAt(msgRateHistory, msgRateHistory', g)
             /\ SameAt(cacheBytesHist, cacheBytesHist', g)
             /\ SameAt(genTimeHistory, genTimeHistory', g)
             /\ \A a \in Addr : a.feed = g => heap'[a] = heap[a]
             /\ g \in Known => MetricsOf(g)' = MetricsOf(g)]_vars

\* both feeds are initialized and have a message each, the second of them
\* just recorded
C34_Witness ==
    /\ Known = FeedIDs
    /\ lastOp.op = "RecordMessage"
    /\ lastOp.feed = "f1"
    /\ feedMetrics["f1"].MessagesReceivedTotal = 1
    /\ feedMetrics["f2"].MessagesReceivedTotal = 1

----
(* Goroutines: the same calls made concurrently. A call is a sequence of    *)
(* steps, one per lock operation and one per section of code between two   *)
(* lock operations; pc[p] is the place of goroutine p in its call          *)

MaxCalls == 3
MaxConcInits == 1

WriteOps == {"InitFeed", "RecordMessage", "RecordWSStatus", "RecordCacheStats",
             "RecordPacketLoss", "RecordContextEviction", "RecordLLMRequest"}
SimpleOps == {"RecordWSStatus", "RecordCacheStats", "RecordPacketLoss",
              "RecordContextEviction"}
LookupOps == {"RecordMessage", "RecordLLMRequest"}

MessageCalls == {Call("RecordMessage", "f1", size) : size \in PayloadSizes}
OtherCalls ==
    {Call("RecordWSStatus", "f1", TRUE),
     Call("RecordCacheStats", "f1", <<2, 25, 4>>),
     Call("RecordPacketLoss", "f1", Nil),
     Call("RecordContextEviction", "f1", 2),
     Call("RecordLLMRequest", "f1", <<100, 50, 200, 800, 3, FALSE>>),
     Call("GetFeedMetrics", "f1", Nil)}

\* c.mu, a sync.RWMutex: Lock() first excludes the other writers and the
\* readers to come (mu.writer), then waits for the readers inside to leave
NoExclusion(m) == TRUE
WriterFree(m) == m.writer = Nil
Lock(m, p) == [m EXCEPT !.writer = p]
Unlock(m, p) == [m EXCEPT !.writer = Nil]
RLock(m, p) == [m EXCEPT !.readers = @ \cup {p}]
RUnlockForgotten(m, p) == m
RUnlock(m, p) == [m EXCEPT !.readers = @ \ {p}]

InFlight(q, op) == pc[q] # "idle" /\ call[q].op = op

\* the sampler calls a call makes once it has the feed, in program order
SamplerCalls(op) ==
    CASE op = "RecordMessage" ->
           << <<"msgWindow", "Add">>, <<"byteWindow", "Add">>, <<"payload", "Add">> >>
      [] op = "RecordLLMRequest" -> << <<"token", "Add">> >>
      [] op = "GetFeedMetrics" ->
           << <<"msgWindow", "Rate">>, <<"byteWindow", "Rate">>, <<"payload", "Stats">> >>
      [] op = "GetMetrics" ->
           << <<"msgWindow", "Rate">>, <<"byteWindow", "Rate">>,
              <<"payload", "Stats">>, <<"token", "Stats">>,
              <<"msgRate", "Add">>, <<"msgRate", "Values">>,
              <<"cacheBytes", "Add">>, <<"cacheBytes", "Values">>,
              <<"genTime", "Add">>, <<"genTime", "Values">> >>

Return(p) ==
    /\ pc' = [pc EXCEPT ![p] = "idle"]
    /\ local' = [local EXCEPT ![p] = NoLocals]

\* the goroutine enters a call; a GetMetrics call remembers the messages
\* recorded so far if every RecordMessage call has returned by then
Start(p, c) ==
    /\ pc[p] = "idle"
    /\ call' = [call EXCEPT ![p] = c]
    /\ pc' = [pc EXCEPT ![p] = IF c.op \in WriteOps THEN "lock" ELSE "rlock"]
    /\ local' = [local EXCEPT ![p] =
          [NoLocals EXCEPT !.seen =
              IF c.op = "GetMetrics" /\ \A q \in Procs : ~InFlight(q, "RecordMessage")
              THEN Ref(recorded) ELSE NilRef]]
    /\ IF c.op = "InitFeed"
       THEN inits' = inits + 1 /\ ops' = ops
       ELSE ops' = ops + 1 /\ inits' = inits
    /\ UNCHANGED <<now, collector, heap, added, dashboardMetrics, feedResult,
                   lastSnapshot, recorded, requested, mu, smu, lastOp, ticks, app, statuses, samplerResult, pipeline>>

\* c.mu.Lock(), first half
AcquireLock(p) ==
    /\ pc[p] = "lock"
    /\ WriterFree(mu)
    /\ mu' = Lock(mu, p)
    /\ pc' = [pc EXCEPT ![p] = "drain"]
    /\ UNCHANGED <<now, collector, heap, added, dashboardMetrics, feedResult,
                   lastSnapshot, recorded, requested, call, local, smu, lastOp, ops, inits, ticks, app, statuses, samplerResult, pipeline>>

\* c.mu.Lock(), second half
AwaitReaders(p) ==
    /\ pc[p] = "drain"
    /\ mu.readers = {}
    /\ pc' = [pc EXCEPT ![p] = "locked"]
    /\ UNCHANGED <<now, collector, heap, added, dashboardMetrics, feedResult,
                   lastSnapshot, recorded, requested, call, local, mu, smu, lastOp, ops,
                   inits, ticks, app, statuses, samplerResult, pipeline>>

\* c.mu.RLock()
AcquireRLock(p) ==
    /\ pc[p] = "rlock"
    /\ WriterFree(mu)
    /\ mu' = RLock(mu, p)
    /\ pc' = [pc EXCEPT ![p] = IF call[p].op = "GetMetrics" THEN "range" ELSE "lookup"]
    /\ local' = [local EXCEPT ![p].visit =
                    IF call[p].op = "GetMetrics" THEN Known ELSE {}]
    /\ UNCHANGED <<now, collector, heap, added, dashboardMetrics, feedResult,
                   lastSnapshot, recorded, requested, call, smu, lastOp, ops, inits, ticks, app, statuses, samplerResult, pipeline>>

\* InitFeed between Lock() and the deferred Unlock()
InitFeedLocked(p) ==
    /\ pc[p] = "locked"
    /\ call[p].op = "InitFeed"
    /\ IF call[p].feed \notin Known
       THEN CreateFeed(call[p].feed, call[p].arg)
       ELSE UNCHANGED <<collector, heap, added>>
    /\ mu' = Unlock(mu, p)
    /\ Return(p)
    /\ UNCHANGED <<now, dashboardMetrics, feedResult, lastSnapshot, recorded, requested,
                   call, smu, lastOp, ops, inits, ticks, app, statuses, samplerResult, pipeline>>

\* RecordWSStatus, RecordCacheStats, RecordPacketLoss and
\* RecordContextEviction between Lock() and the deferred Unlock()
SimpleLocked(p) ==
    /\ pc[p] = "locked"
    /\ call[p].op \in SimpleOps
    /\ LET f == call[p].feed
           arg == call[p].arg
       IN  \/ call[p].op = "RecordWSStatus" /\ WSStatusEffect(f, arg)
           \/ call[p].op = "RecordCacheStats"
                 /\ CacheStatsEffect(f, arg[1], arg[2], arg[3])
           \/ call[p].op = "RecordPacketLoss" /\ PacketLossEffect(f)
           \/ call[p].op = "RecordContextEviction" /\ ContextEvictionEffect(f, arg)
    /\ mu' = Unlock(mu, p)
    /\ Return(p)
    /\ UNCHANGED <<now, heap, added, dashboardMetrics, feedResult, lastSnapshot,
                   recorded, requested, call, smu, lastOp, ops, inits, ticks, app, statuses, samplerResult, pipeline>>

\* RecordMessage and RecordLLMRequest: "fm, exists := c.feedMetrics[feedID]"
\* and the early return; fm is read here and written by the next step
LookupLocked(p) ==
    LET f == call[p].feed
    IN  /\ pc[p] = "locked"
        /\ call[p].op \in LookupOps
        /\ IF f \in Known
           THEN /\ local' = [local EXCEPT ![p].fm = Ref(feedMetrics[f])]
                /\ pc' = [pc EXCEPT ![p] = "update"]
                /\ recorded' =
                      IF call[p].op = "RecordMessage"
                      THEN [recorded EXCEPT ![f] =
                              Append(@, [timestamp |-> now, size |-> call[p].arg])]
                      ELSE recorded
                /\ mu' = mu
           ELSE /\ mu' = Unlock(mu, p)
                /\ Return(p)
                /\ recorded' = recorded
        /\ UNCHANGED <<now, collector, heap, added, dashboardMetrics, feedResult,
                       lastSnapshot, requested, call, smu, lastOp, ops, inits, ticks,
                       app, statuses, samplerResult, pipeline>>

\* RecordMessage and RecordLLMRequest: the assignments to *fm and
\* c.lastMsgTimes, the three (one) sampler lookups and c.mu.Unlock()
UpdateLocked(p) ==
    LET f == call[p].feed
        arg == call[p].arg
        fm == local[p].fm[1]
    IN  /\ pc[p] = "update"
        /\ IF call[p].op = "RecordMessage"
           THEN /\ feedMetrics' = [feedMetrics EXCEPT ![f] = MessageFm(fm, arg, now)]
                /\ lastMsgTimes' = Put(lastMsgTimes, f, now)
           ELSE /\ feedMetrics' = [feedMetrics EXCEPT ![f] =
                                      LLMRequestFm(fm, arg[5], arg[6])]
                /\ lastMsgTimes' = lastMsgTimes
        /\ mu' = Unlock(mu, p)
        /\ local' = [local EXCEPT ![p].todo = SamplerCalls(call[p].op)]
        /\ pc' = [pc EXCEPT ![p] = "sampler"]
        /\ UNCHANGED <<now, messageWindows, byteWindows, payloadSamples,
                       llmTokenSamples, startTimes, msgRateHistory, cacheBytesHist,
                       genTimeHistory, heap, added, dashboardMetrics, feedResult,
                       lastSnapshot, recorded, requested, call, smu, lastOp, ops, inits, ticks, app, statuses, samplerResult, pipeline>>

\* GetFeedMetrics: the lookup, "return nil" with the deferred RUnlock(), or
\* "metrics := *fm"
LookupRLocked(p) ==
    LET f == call[p].feed
    IN  /\ pc[p] = "lookup"
        /\ IF f \in Known
           THEN /\ local' = [local EXCEPT ![p].fm = Ref(Copied(f)),
                                          ![p].todo = SamplerCalls(call[p].op)]
                /\ pc' = [pc EXCEPT ![p] = "sampler"]
                /\ UNCHANGED <<mu, feedResult>>
           ELSE /\ feedResult' = NilRef
                /\ mu' = RUnlock(mu, p)
                /\ Return(p)
        /\ UNCHANGED <<now, collector, heap, added, dashboardMetrics, lastSnapshot,
                       recorded, requested, call, smu, lastOp, ops, inits, ticks, app, statuses, samplerResult, pipeline>>

\* GetMetrics: the next iteration of "for feedID, fm := range c.feedMetrics"
\* and "metrics := *fm"
RangeNext(p) ==
    /\ pc[p] = "range"
    /\ \E f \in local[p].visit :
          local' = [local EXCEPT ![p].fm = Ref(Copied(f)),
                                 ![p].visit = @ \ {f},
                                 ![p].todo = SamplerCalls("GetMetrics")]
    /\ pc' = [pc EXCEPT ![p] = "sampler"]
    /\ UNCHANGED <<now, collector, heap, added, dashboardMetrics, feedResult,
                   lastSnapshot, recorded, requested, call, mu, smu, lastOp, ops, inits, ticks, app, statuses, samplerResult, pipeline>>

\* GetMetrics after the loop: sort.Slice, the return and the deferred RUnlock()
ReturnMetrics(p) ==
    LET feeds == local[p].feeds
        order == [i \in DOMAIN feeds |-> feeds[i].FeedID]
        Of(f) == feeds[CHOOSE i \in DOMAIN feeds : feeds[i].FeedID = f]
    IN  /\ pc[p] = "range"
        /\ local[p].visit = {}
        /\ \E sorted \in Sorted(order) :
              dashboardMetrics' = [i \in DOMAIN sorted |-> Of(sorted[i])]
        /\ lastSnapshot' = [f \in FeedIDs |->
              IF \E i \in DOMAIN feeds : feeds[i].FeedID = f
              THEN Ref(Of(f)) ELSE lastSnapshot[f]]
        /\ mu' = RUnlock(mu, p)
        /\ Return(p)
        /\ UNCHANGED <<now, collector, heap, added, feedResult, recorded, requested, call,
                       smu, lastOp, ops, inits, ticks, app, statuses, samplerResult, pipeline>>

\* GetFeedMetrics: "return &metrics" and the deferred RUnlock()
ReturnFeedMetrics(p) ==
    LET f == call[p].feed
    IN  /\ pc[p] = "return"
        /\ feedResult' = AddressOfCopy(local[p].fm[1], f)
        /\ lastSnapshot' = [lastSnapshot EXCEPT ![f] = local[p].fm]
        /\ mu' = RUnlock(mu, p)
        /\ Return(p)
        /\ UNCHANGED <<now, collector, heap, added, dashboardMetrics, recorded, requested,
                       call, smu, lastOp, ops, inits, ticks, app, statuses, samplerResult, pipeline>>

\* the feed whose samplers the goroutine is calling
CurFeed(p) == IF call[p].op = "GetMetrics" THEN local[p].fm[1].FeedID ELSE call[p].feed
CurSampler(p) == <<Head(local[p].todo)[1], CurFeed(p)>>

\* "x.mu.Lock()" at the top of the next sampler method
SamplerLock(p) ==
    /\ pc[p] = "sampler"
    /\ smu[CurSampler(p)] = Nil
    /\ smu' = [smu EXCEPT ![CurSampler(p)] = p]
    /\ pc' = [pc EXCEPT ![p] = "insampler"]
    /\ UNCHANGED <<now, collector, heap, added, dashboardMetrics, feedResult,
                   lastSnapshot, recorded, requested, call, local, mu, lastOp, ops, inits, ticks, app, statuses, samplerResult, pipeline>>

HistoryField(kind) ==
    CASE kind = "msgRate" -> "MsgRateHistory"
      [] kind = "cacheBytes" -> "CacheBytesHistory"
      [] kind = "genTime" -> "GenTimeHistory"

\* the caller's metrics after the sampler method has returned
Assigned(m, kind, method, f) ==
    CASE kind = "msgWindow" /\ method = "Rate" ->
           [m EXCEPT !.MessagesPerSecond10s = Rate(messageWindows[f], RateWindow, now)]
      [] kind = "byteWindow" /\ method = "Rate" ->
           [m EXCEPT !.BytesPerSecond10s = Rate(byteWindows[f], RateWindow, now)]
      [] kind = "payload" /\ method = "Stats" ->
           [m EXCEPT !.PayloadSizeAvgBytes = PayloadStats(payloadSamples[f])]
      [] kind = "token" /\ method = "Stats" -> WithLLMStats(m, f)
      [] kind \in HistKinds /\ method = "Values" ->
           [m EXCEPT ![HistoryField(kind)] =
               Values(HistorySamplerOf(kind, f), SnapshotArray(kind, f))]
      [] OTHER -> m

\* the body of the sampler method, its deferred "x.mu.Unlock()", and what
\* the caller does with the result before its next lock operation
SamplerCall(p) ==
    LET kind == Head(local[p].todo)[1]
        method == Head(local[p].todo)[2]
        f == CurFeed(p)
        arg == call[p].arg
        op == call[p].op
        rest == Tail(local[p].todo)
        m == Assigned(local[p].fm[1], kind, method, f)
    IN  /\ pc[p] = "insampler"
        /\ messageWindows' =
              IF kind = "msgWindow"
              THEN [messageWindows EXCEPT ![f] =
                      IF method = "Add" THEN WindowAdd(@, 1, now) ELSE prune(@, now)]
              ELSE messageWindows
        /\ byteWindows' =
              IF kind = "byteWindow"
              THEN [byteWindows EXCEPT ![f] =
                      IF method = "Add" THEN WindowAdd(@, arg, now) ELSE prune(@, now)]
              ELSE byteWindows
        /\ payloadSamples' =
              IF kind = "payload" /\ method = "Add"
              THEN [payloadSamples EXCEPT ![f] = PayloadAdd(@, arg, now)]
              ELSE payloadSamples
        /\ llmTokenSamples' =
              IF kind = "token" /\ method = "Add"
              THEN [llmTokenSamples EXCEPT ![f] =
                      TokenAdd(@, arg[1], arg[2], arg[3], arg[4], now)]
              ELSE llmTokenSamples
        /\ heap' =
              IF kind \in HistKinds
              THEN LET h == HistorySamplerOf(kind, f)
                   IN  IF method = "Add"
                       THEN [heap EXCEPT ![h.samples] =
                               HistoryAdd(h, HistorySample(m, kind), @)]
                       ELSE [heap EXCEPT ![SnapshotArray(kind, f)] = heap[h.samples]]
              ELSE heap
        /\ added' =
              IF kind \in HistKinds /\ method = "Add"
              THEN [added EXCEPT ![SamplerArray(kind, f)] =
                      Append(@, HistorySample(m, kind))]
              ELSE added
        /\ requested' =
              IF kind = "token" /\ method = "Add"
              THEN [requested EXCEPT ![f] =
                      Append(@, [timestamp |-> now, inputTokens |-> arg[1],
                                 outputTokens |-> arg[2], ttftMs |-> arg[3],
                                 genTimeMs |-> arg[4]])]
              ELSE requested
        /\ smu' = [smu EXCEPT ![<<kind, f>>] = Nil]
        /\ IF rest # <<>>
           THEN /\ pc' = [pc EXCEPT ![p] = "sampler"]
                /\ local' = [local EXCEPT ![p].todo = rest, ![p].fm = Ref(m)]
           ELSE CASE op = "GetMetrics" ->
                       /\ pc' = [pc EXCEPT ![p] = "range"]
                       /\ local' = [local EXCEPT ![p].todo = rest,
                                                 ![p].fm = NilRef,
                                                 ![p].feeds = Append(@, m)]
                  [] op = "GetFeedMetrics" ->
                       /\ pc' = [pc EXCEPT ![p] = "return"]
                       /\ local' = [local EXCEPT ![p].todo = rest, ![p].fm = Ref(m)]
                  [] OTHER -> Return(p)
        /\ UNCHANGED <<now, feedMetrics, startTimes, lastMsgTimes, msgRateHistory,
                       cacheBytesHist, genTimeHistory, dashboardMetrics, feedResult,
                       lastSnapshot, recorded, call, mu, lastOp, ops, inits, ticks, app, statuses, samplerResult, pipeline>>

\* a goroutine goes on with the RecordMessage or GetMetrics call it is in
RunMessages(p) ==
    \/ AcquireLock(p)
    \/ AwaitReaders(p)
    \/ AcquireRLock(p)
    \/ InitFeedLocked(p)
    \/ LookupLocked(p)
    \/ UpdateLocked(p)
    \/ RangeNext(p)
    \/ ReturnMetrics(p)
    \/ SamplerLock(p)
    \/ SamplerCall(p)

\* a goroutine goes on with the call it is in, whichever it is
Run(p) ==
    \/ RunMessages(p)
    \/ SimpleLocked(p)
    \/ LookupRLocked(p)
    \/ ReturnFeedMetrics(p)

\* producers recording messages for one feed while it is initialized and read
NextMessages ==
    \/ \E p \in Procs : inits < MaxConcInits /\ Start(p, Call("InitFeed", "f1", "alpha"))
    \/ \E p \in Procs : \E c \in MessageCalls : ops < MaxCalls /\ Start(p, c)
    \/ \E p \in Procs : ops < MaxCalls /\ Start(p, Call("GetMetrics", Nil, Nil))
    \/ \E p \in Procs : RunMessages(p)

SpecMessages == Init /\ [][NextMessages]_vars

\* every kind of call, with a scheduler that lets every goroutine that can
\* take a step take one eventually
NextConc ==
    \/ \E p \in Procs : inits < MaxConcInits /\ Start(p, Call("InitFeed", "f1", "alpha"))
    \/ \E p \in Procs : \E c \in MessageCalls \cup OtherCalls :
          ops < MaxCalls /\ Start(p, c)
    \/ \E p \in Procs : ops < MaxCalls /\ Start(p, Call("GetMetrics", Nil, Nil))
    \/ \E p \in Procs : Run(p)

SpecConc == Init /\ [][NextConc]_vars /\ \A p \in Procs : WF_vars(Run(p))

PositiveBytes(msgs) ==
    SumSeq([i \in DOMAIN msgs |-> IF msgs[i].size > 0 THEN msgs[i].size ELSE 0])

\* C1: a GetMetrics call that starts when every RecordMessage call has
\* returned, and during which no further message is recorded, reports for
\* each feed MessagesReceivedTotal equal to the number K of RecordMessage
\* calls made on the initialized feed and BytesReceivedTotal equal to the
\* sum of their positive payload sizes, however the K calls interleaved
C1_NoLostUpdates ==
    [][\A p \in Procs :
          (/\ pc[p] = "range"
           /\ pc'[p] = "idle"
           /\ local[p].seen = Ref(recorded))
          => \A i \in DOMAIN dashboardMetrics' :
                LET m == dashboardMetrics'[i]
                IN  /\ m.MessagesReceivedTotal = Len(recorded[m.FeedID])
                    /\ m.BytesReceivedTotal = PositiveBytes(recorded[m.FeedID])]_vars

\* two RecordMessage calls overlapped (the one that took c.mu second reached
\* the byte window first), both have returned, and a GetMetrics call that
\* started afterwards is about to return its snapshot
C1_Witness ==
    \E p \in Procs :
       /\ pc[p] = "range"
       /\ call[p].op = "GetMetrics"
       /\ local[p].visit = {}
       /\ local[p].seen = Ref(recorded)
       /\ Len(recorded["f1"]) = 2
       /\ recorded["f1"][1].size = -2
       /\ Len(byteWindows["f1"].samples) = 2
       /\ byteWindows["f1"].samples[1].value = 3
       /\ Len(local[p].feeds) = 1
       /\ local[p].feeds[1].MessagesReceivedTotal = 2

HoldsNoLock(p) ==
    /\ p \notin mu.readers
    /\ mu.writer # p
    /\ \A s \in SamplerIds : smu[s] # p

\* C2: with every goroutine scheduled fairly, every call that has started
\* returns, and a goroutine that is not inside a call holds neither c.mu
\* (for reading or writing) nor any sampler's mutex
C2_EveryCallReturns ==
    /\ [](\A p \in Procs : pc[p] = "idle" => HoldsNoLock(p))
    /\ \A p \in Procs : (pc[p] # "idle") ~> (pc[p] = "idle")

\* a writer has announced itself and waits for a reader that holds c.mu and,
\* inside it, a sampler's mutex
C2_Witness ==
    \E p, q \in Procs :
       /\ pc[p] = "drain"
       /\ mu.writer = p
       /\ q \in mu.readers
       /\ pc[q] = "insampler"
       /\ smu[CurSampler(q)] = q

----
(* Goroutines adding samples while the clock advances *)

MaxOrderCalls == 3
MaxOrderTicks == 2

AddCalls ==
    {Call("RecordMessage", "f1", 3),
     Call("RecordLLMRequest", "f1", <<100, 50, 200, 800, 3, FALSE>>)}

\* a goroutine goes on with the InitFeed, RecordMessage or RecordLLMRequest
\* call it is in
RunAdds(p) ==
    \/ AcquireLock(p)
    \/ AwaitReaders(p)
    \/ InitFeedLocked(p)
    \/ LookupLocked(p)
    \/ UpdateLocked(p)
    \/ SamplerLock(p)
    \/ SamplerCall(p)

NextOrder ==
    \/ ticks < MaxOrderTicks /\ \E d \in WindowTickSteps : Tick(d)
    \/ \E p \in Procs : inits < MaxConcInits /\ Start(p, Call("InitFeed", "f1", "alpha"))
    \/ \E p \in Procs : \E c \in AddCalls : ops < MaxOrderCalls /\ Start(p, c)
    \/ \E p \in Procs : RunAdds(p)

SpecOrder == Init /\ [][NextOrder]_vars

NonDecreasing(times) ==
    \A i, j \in DOMAIN times : i < j => times[i] <= times[j]

\* C35: under any interleaving of concurrent Add calls the samples of a
\* sliding window and the time stamps of a payload sampler and of a token
\* sampler are stored in non-decreasing timestamp order, and the parallel
\* slices of a sampler have equal lengths.
C35_SamplesOrdered ==
    \A f \in Known :
       /\ NonDecreasing(Timestamps(messageWindows[f].samples))
       /\ NonDecreasing(Timestamps(byteWindows[f].samples))
       /\ NonDecreasing(payloadSamples[f].times)
       /\ NonDecreasing(llmTokenSamples[f].times)
       /\ Len(payloadSamples[f].samples) = Len(payloadSamples[f].times)
       /\ Len(llmTokenSamples[f].ttfts) = Len(llmTokenSamples[f].times)
       /\ Len(llmTokenSamples[f].genTimes) = Len(llmTokenSamples[f].times)

\* two RecordMessage calls are in their sampler calls at once: the byte
\* window has the sample of one of them, stamped later than the two samples
\* of the message window, and the call that stamped it has not reached the
\* payload sampler, where the other is
C35_Witness ==
    /\ "f1" \in Known
    /\ Len(messageWindows["f1"].samples) = 2
    /\ Len(byteWindows["f1"].samples) = 1
    /\ Len(payloadSamples["f1"].times) = 1
    /\ messageWindows["f1"].samples[1].timestamp < messageWindows["f1"].samples[2].timestamp
    /\ messageWindows["f1"].samples[2].timestamp < byteWindows["f1"].samples[1].timestamp
    /\ \A p \in Procs : pc[p] \in {"sampler", "insampler"} /\ call[p].op = "RecordMessage"

\* C26: RecordMessage takes effect atomically with respect to snapshots: a
\* GetMetrics snapshot reflects either all of the effects of a RecordMessage
\* call or none of them. All messages here are recorded at one instant,
\* within the last 10 seconds, so in every snapshot
\* MessagesPerSecond10s * 10 = MessagesReceivedTotal.
C26_RecordMessageAtomic ==
    \A i \in DOMAIN dashboardMetrics :
       FEq(FMul(dashboardMetrics[i].MessagesPerSecond10s, F(RateWindow)),
           F(dashboardMetrics[i].MessagesReceivedTotal))

\* a goroutine is about to lock a sampler's mutex, or holds one
AtSampler(p) ==
    \/ pc[p] \in {"sampler", "insampler"}
    \/ \E s \in SamplerIds : smu[s] = p

\* a goroutine holds c.mu, for reading or for writing
HoldsCollectorLock(p) ==
    \/ p \in mu.readers
    \/ mu.writer = p /\ pc[p] # "drain"

\* C27: no Collector operation holds c.mu, in read or in write mode, while
\* it acquires or holds the lock of a sampler: c.mu is released before any
\* Add, Rate, Stats or Values begins.
C27_TwoTierLocking ==
    \A p \in Procs : AtSampler(p) => ~HoldsCollectorLock(p)

----
(* The WebSocket client, the Bubble Tea runtime around Update, and the AI   *)
(* state. One client is dialed. A command runs in a goroutine of its own,   *)
(* so the messages that commands have returned reach Update in any order.   *)
(* A request ID is a string, a token a number (the server numbers the       *)
(* tokens of an answer 1, 2, ...), an answer the sequence of its tokens     *)

\* what the handlers of this section leave alone
metricsState == <<now, collector, heap, added, dashboardMetrics, feedResult,
                  lastSnapshot, recorded, requested, statuses, samplerResult, inits,
                  ticks, goroutines>>

\* "incoming: make(chan tea.Msg, 32)"
IncomingCapacity == 32

\* a tea.Msg: id is the feed ID, request ID or status of the message, arg
\* its token, answer length or data length, err whether Err is not nil;
\* seq is its place among the messages readLoop has sent on the channel (0
\* for a message that did not come through the channel)
Msg(kind, id, arg, err) ==
    [kind |-> kind, id |-> id, arg |-> arg, err |-> err, seq |-> 0]

\* an envelope: id is the feedId or requestId of its payload as far as
\* json.Unmarshal decodes it, ok whether json.Unmarshal returns no error
Env(type, id, arg, ok) == [type |-> type, id |-> id, arg |-> arg, ok |-> ok]

Remove(s, i) == SubSeq(s, 1, i - 1) \o SubSeq(s, i + 1, Len(s))

\* wsClient.readLoop of ws.go: the message its "switch env.Type" sends for an
\* envelope, or nil. After a failed json.Unmarshal of a feed-data payload it
\* sends packetDroppedMsg{FeedID: payload.FeedID}, payload holding what
\* json.Unmarshal decoded
readLoopSwitch(env) ==
    CASE env.type = "registration-success" ->
           Ref(Msg("WSStatusMsg", "connected", 0, FALSE))
      [] env.type = "feed-data" ->
           IF env.ok THEN Ref(Msg("FeedDataMsg", env.id, env.arg, FALSE))
           ELSE Ref(Msg("PacketDroppedMsg", env.id, 0, FALSE))
      [] env.type = "token-usage-update" /\ env.ok ->
           Ref(Msg("TokenUsageUpdateMsg", "", 0, FALSE))
      [] env.type = "llm-token" /\ env.ok ->
           Ref(Msg("AITokenMsg", env.id, env.arg, FALSE))
      [] env.type \in {"llm-response", "llm-complete"} /\ env.ok ->
           Ref(Msg("AIResponseMsg", env.id, env.arg, FALSE))
      [] env.type = "llm-error" /\ env.ok ->
           Ref(Msg("AIResponseMsg", env.id, 0, TRUE))
      [] OTHER -> NilRef

\* Client.parseMessage: the message of an envelope, or nil
parseMessage(env) ==
    CASE env.type = "registration-success" ->
           Ref(Msg("WSStatusMsg", "connected", 0, FALSE))
      [] env.type = "feed-data" ->
           IF env.ok THEN Ref(Msg("FeedDataMsg", env.id, env.arg, FALSE))
           ELSE Ref(Msg("PacketDroppedMsg", "", 0, FALSE))
      [] env.type = "token-usage-update" /\ env.ok ->
           Ref(Msg("TokenUsageUpdateMsg", "", 0, FALSE))
      [] env.type = "llm-token" /\ env.ok ->
           Ref(Msg("AITokenMsg", env.id, env.arg, FALSE))
      [] env.type \in {"llm-response", "llm-complete"} /\ env.ok ->
           Ref(Msg("AIResponseMsg", env.id, env.arg, FALSE))
      [] env.type = "llm-error" /\ env.ok ->
           Ref(Msg("AIResponseMsg", env.id, 0, TRUE))
      [] OTHER -> NilRef

\* commands.ConnectWS: ws.Dial makes the client, starts "go client.readLoop()"
\* and the command returns WSClientConnected
ConnectWS ==
    /\ ctx = "none"
    /\ ctx' = "open"
    /\ readLoop' = [pc |-> "read", msg |-> NilRef, sent |-> 0, client |-> "ws.Client"]
    /\ teaMsgs' = Append(teaMsgs, Msg("WSClientConnected", "", 0, FALSE))
    /\ lastOp' = Call("ConnectWS", Nil, Nil)
    /\ UNCHANGED <<metricsState, given, app, ai, ops, wire, incoming, chanClosed, waiting,
                   sending, timers, queries>>

\* connectWS of the program built from main.go and ws.go of the repository
\* root: dialWS makes a wsClient, starts "go client.readLoop()" and the
\* command returns wsConnectedMsg, which Update handles as the program of
\* cmd handles WSClientConnected
dialWS ==
    /\ ctx = "none"
    /\ ctx' = "open"
    /\ readLoop' = [pc |-> "read", msg |-> NilRef, sent |-> 0, client |-> "wsClient"]
    /\ teaMsgs' = Append(teaMsgs, Msg("WSClientConnected", "", 0, FALSE))
    /\ lastOp' = Call("connectWS", Nil, Nil)
    /\ UNCHANGED <<metricsState, given, app, ai, ops, wire, incoming, chanClosed, waiting,
                   sending, timers, queries>>

\* the connection breaks or the server closes it: reads fail from now on
ConnectionLost ==
    /\ ctx = "open"
    /\ ctx' = "done"
    /\ lastOp' = Call("ConnectionLost", Nil, Nil)
    /\ UNCHANGED <<metricsState, app, ai, ops, runtime>>

\* the server writes an envelope
ServerWrites(env) ==
    /\ ctx = "open"
    /\ wire' = Append(wire, env)
    /\ lastOp' = Call("ServerWrites", env.id, env.type)
    /\ UNCHANGED <<metricsState, given, app, ai, ops, ctx, incoming, chanClosed, readLoop,
                   waiting, teaMsgs, sending, timers, queries>>

\* readLoop: wsjson.Read returns an envelope, parseMessage
ReadEnvelope ==
    /\ readLoop.client = "ws.Client"
    /\ readLoop.pc = "read"
    /\ ctx = "open"
    /\ wire # <<>>
    /\ wire' = Tail(wire)
    /\ readLoop' = IF parseMessage(Head(wire)) = NilRef THEN readLoop
                   ELSE [readLoop EXCEPT !.pc = "send", !.msg = parseMessage(Head(wire))]
    /\ lastOp' = Call("readLoop", Nil, "read")
    /\ UNCHANGED <<metricsState, given, app, ai, ops, ctx, incoming, chanClosed, waiting,
                   teaMsgs, sending, timers, queries>>

\* wsClient.readLoop: wsjson.Read returns an envelope, "switch env.Type"
readEnvelopeWS ==
    /\ readLoop.client = "wsClient"
    /\ readLoop.pc = "read"
    /\ ctx = "open"
    /\ wire # <<>>
    /\ wire' = Tail(wire)
    /\ readLoop' = IF readLoopSwitch(Head(wire)) = NilRef THEN readLoop
                   ELSE [readLoop EXCEPT !.pc = "send", !.msg = readLoopSwitch(Head(wire))]
    /\ lastOp' = Call("wsClient.readLoop", Nil, "read")
    /\ UNCHANGED <<metricsState, given, app, ai, ops, ctx, incoming, chanClosed, waiting,
                   teaMsgs, sending, timers, queries>>

\* readLoop: wsjson.Read returns an error
ReadFails ==
    /\ readLoop.pc = "read"
    /\ ctx = "done"
    /\ readLoop' = [readLoop EXCEPT
                       !.pc = "sendLast",
                       !.msg = Ref(Msg("WSStatusMsg", "disconnected", 0, TRUE))]
    /\ lastOp' = Call("readLoop", Nil, "error")
    /\ UNCHANGED <<metricsState, given, app, ai, ops, ctx, wire, incoming, chanClosed,
                   waiting, teaMsgs, sending, timers, queries>>

\* readLoop: "c.incoming <- msg" once the buffer has room; after the
\* "disconnected" status the return and the deferred close(c.incoming)
ChanSend ==
    /\ readLoop.pc \in {"send", "sendLast"}
    /\ Len(incoming) < IncomingCapacity
    /\ incoming' = Append(incoming, [readLoop.msg[1] EXCEPT !.seq = readLoop.sent + 1])
    /\ chanClosed' = (readLoop.pc = "sendLast")
    /\ readLoop' = [readLoop EXCEPT
                       !.pc = IF readLoop.pc = "send" THEN "read" ELSE "done",
                       !.msg = NilRef,
                       !.sent = readLoop.sent + 1]
    /\ lastOp' = Call("readLoop", Nil, "send")
    /\ UNCHANGED <<metricsState, given, app, ai, ops, ctx, wire, waiting, teaMsgs, sending,
                   timers, queries>>

\* a ListenCmd command: "msg, ok := <-c.incoming" gets a message
Listen ==
    /\ waiting > 0
    /\ incoming # <<>>
    /\ incoming' = Tail(incoming)
    /\ waiting' = waiting - 1
    /\ teaMsgs' = Append(teaMsgs, Head(incoming))
    /\ lastOp' = Call("ListenCmd", Nil, Head(incoming).kind)
    /\ UNCHANGED <<metricsState, given, app, ai, ops, ctx, wire, chanClosed, readLoop,
                   sending, timers, queries>>

\* a ListenCmd command: the channel is closed and empty, ok is false
ListenClosed ==
    /\ waiting > 0
    /\ incoming = <<>>
    /\ chanClosed
    /\ waiting' = waiting - 1
    /\ teaMsgs' = Append(teaMsgs, Msg("WSStatusMsg", "disconnected", 0, TRUE))
    /\ lastOp' = Call("ListenCmd", Nil, "closed")
    /\ UNCHANGED <<metricsState, given, app, ai, ops, ctx, wire, incoming, chanClosed,
                   readLoop, sending, timers, queries>>

\* the number of commands m.nextWSListen() returns, m being the model the
\* handler returns
nextWSListen == IF wsClient' THEN 1 ELSE 0

\* Update is given message i; the handler returns listens ListenCmd commands
Given(i, listens) ==
    /\ teaMsgs' = Remove(teaMsgs, i)
    /\ waiting' = waiting + listens
    /\ given' = IF teaMsgs[i].seq > 0 THEN Append(given, teaMsgs[i].seq) ELSE given
    /\ UNCHANGED <<wire, incoming, chanClosed, readLoop, sending, timers, queries>>

UpdateWSConnected ==
    \E i \in DOMAIN teaMsgs :
       /\ teaMsgs[i].kind = "WSClientConnected"
       /\ handleWSConnected(TRUE)
       /\ Given(i, 1)

UpdateWSStatus ==
    \E i \in DOMAIN teaMsgs :
       /\ teaMsgs[i].kind = "WSStatusMsg"
       /\ handleWSStatus(teaMsgs[i].id)
       /\ Given(i, nextWSListen)

UpdateFeedData ==
    \E i \in DOMAIN teaMsgs :
       /\ teaMsgs[i].kind = "FeedDataMsg"
       /\ handleFeedData(teaMsgs[i].id, NameIn(AllFeeds, teaMsgs[i].id), teaMsgs[i].arg)
       /\ Given(i, nextWSListen)

\* Update on a PacketDroppedMsg: RecordPacketLoss(msg.FeedID)
UpdatePacketDropped ==
    \E i \in DOMAIN teaMsgs :
       /\ teaMsgs[i].kind = "PacketDroppedMsg"
       /\ PacketLossEffect(teaMsgs[i].id)
       /\ ops' = ops + 1
       /\ lastOp' = Call("PacketDroppedMsg", teaMsgs[i].id, Nil)
       /\ UNCHANGED <<now, heap, added, dashboardMetrics, feedResult, lastSnapshot,
                      recorded, requested, statuses, samplerResult, inits, ticks,
                      goroutines, app, ctx, ai>>
       /\ Given(i, nextWSListen)

\* Update on a message it has no case for: "return m, nil"
UpdateUnhandled ==
    \E i \in DOMAIN teaMsgs :
       /\ teaMsgs[i].kind = "TokenUsageUpdateMsg"
       /\ ops' = ops + 1
       /\ lastOp' = Call("Update", Nil, teaMsgs[i].kind)
       /\ UNCHANGED <<metricsState, app, ctx, ai>>
       /\ Given(i, 0)

\* what RecordLLMRequest does to the collector
LLMRequestEffect(f, inputTokens, outputTokens, ttftMs, genTimeMs, eventsInContext, isError) ==
    /\ IF f \in Known
       THEN /\ feedMetrics' = [feedMetrics EXCEPT ![f] =
                   LLMRequestFm(@, eventsInContext, isError)]
            /\ llmTokenSamples' = [llmTokenSamples EXCEPT ![f] =
                   TokenAdd(@, inputTokens, outputTokens, ttftMs, genTimeMs, now)]
            /\ requested' = [requested EXCEPT ![f] =
                   Append(@, [timestamp |-> now, inputTokens |-> inputTokens,
                              outputTokens |-> outputTokens, ttftMs |-> ttftMs,
                              genTimeMs |-> genTimeMs])]
       ELSE UNCHANGED <<feedMetrics, llmTokenSamples, requested>>
    /\ UNCHANGED <<messageWindows, byteWindows, payloadSamples, startTimes,
                   lastMsgTimes, msgRateHistory, cacheBytesHist, genTimeHistory>>

\* the feed handleAIToken finds for a request ID
TokenFeed(a, id) ==
    IF id \in DOMAIN a.ActiveRequests THEN a.ActiveRequests[id] ELSE a.RequestFeedID

\* handleAIToken: a token of a request that is neither active nor the
\* current one is ignored; a token is not the empty string
handleAIToken(id, token) ==
    LET ignored == id \notin DOMAIN ai.ActiveRequests /\ id # ai.RequestID
        feedID == TokenFeed(ai, id)
    IN  /\ ai' = IF ignored THEN ai
                 ELSE [ai EXCEPT
                         !.FirstTokens[feedID] = IF @ = NilRef THEN Ref(now) ELSE @,
                         !.Responses[feedID] = Append(@, token),
                         !.Loading[feedID] = TRUE]
        /\ ops' = ops + 1
        /\ lastOp' = Call("handleAIToken", id, token)
        /\ UNCHANGED <<metricsState, app, ctx>>

\* the feed handleAIResponse finds for a request ID
ResponseFeed(a, id) ==
    IF id \in DOMAIN a.ActiveRequests THEN a.ActiveRequests[id]
    ELSE IF a.RequestFeedID # "" THEN a.RequestFeedID
    ELSE a.SelectedFeed

\* AIState.AddToHistory: the length of the history afterwards
AddToHistory(n) == IF n + 1 > 10 THEN 10 ELSE n + 1

\* handleAIResponse(msg), answerLen being len(msg.Answer); the text
\* "Error: ..." of a failed request is kept as the token 0. With no feed
\* for the request only the entries of key "" change, which no feed reads
handleAIResponse(id, answerLen, err) ==
    LET feedID == ResponseFeed(ai, id)
        a1 == [ai EXCEPT !.ActiveRequests = Delete(@, id)]
        start == ai.StartTimes[feedID]
        first == ai.FirstTokens[feedID]
        ttftMs == IF first # NilRef /\ start # NilRef
                  THEN (first[1] - start[1]) * 1000 ELSE 0
        genTimeMs == IF start # NilRef THEN (now - start[1]) * 1000 ELSE 0
    IN  /\ IF feedID = ""
           THEN /\ ai' = a1
                /\ UNCHANGED <<collector, requested>>
           ELSE IF err
           THEN /\ ai' = [a1 EXCEPT !.Loading[feedID] = FALSE,
                                    !.Responses[feedID] = <<0>>,
                                    !.OutputHistories[feedID] = AddToHistory(@)]
                /\ LLMRequestEffect(feedID, 0, 0, 0, 0, 0, TRUE)
           ELSE /\ ai' = [a1 EXCEPT !.Loading[feedID] = FALSE,
                                    !.Responses[feedID] = [k \in 1..answerLen |-> k],
                                    !.OutputHistories[feedID] = AddToHistory(@),
                                    !.StartTimes[feedID] = NilRef,
                                    !.FirstTokens[feedID] = NilRef]
                /\ LLMRequestEffect(feedID, ai.Prompts[feedID] \div 4, answerLen \div 4,
                                    ttftMs, genTimeMs,
                                    Len(EntriesOf(Entries, feedID)), FALSE)
        /\ ops' = ops + 1
        /\ lastOp' = Call("handleAIResponse", id, err)
        /\ UNCHANGED <<now, heap, added, dashboardMetrics, feedResult, lastSnapshot,
                       recorded, statuses, samplerResult, inits, ticks, goroutines,
                       app, ctx>>

UpdateAIToken ==
    \E i \in DOMAIN teaMsgs :
       /\ teaMsgs[i].kind = "AITokenMsg"
       /\ handleAIToken(teaMsgs[i].id, teaMsgs[i].arg)
       /\ Given(i, nextWSListen)

UpdateAIResponse ==
    \E i \in DOMAIN teaMsgs :
       /\ teaMsgs[i].kind = "AIResponseMsg"
       /\ handleAIResponse(teaMsgs[i].id, teaMsgs[i].arg, teaMsgs[i].err)
       /\ Given(i, nextWSListen)

\* handleSubsResult without an error: the subscriptions are stored (the
\* Subscribe calls write to the server, which keeps no state of them here)
handleSubsResult(subs) ==
    /\ ai' = [ai EXCEPT !.Subscriptions = subs]
    /\ ops' = ops + 1
    /\ lastOp' = Call("handleSubsResult", Nil, subs)
    /\ UNCHANGED <<metricsState, app, ctx>>

\* updateAIPrompt on a key that is neither esc nor enter: the prompt of the
\* selected feed f takes the key; length is the length of its text afterwards
updatePrompt(f, length) ==
    /\ f \in FeedIDsOf(Feeds)
    /\ ai' = [ai EXCEPT !.Prompts[f] = length]
    /\ ops' = ops + 1
    /\ lastOp' = Call("updateAIPrompt", f, length)
    /\ UNCHANGED <<metricsState, app, ctx>>

\* handleToggleAIMode on the feeds or dashboard screen
handleToggleAIMode ==
    /\ ai' = IF ai.AutoMode THEN [ai EXCEPT !.AutoMode = FALSE]
             ELSE [ai EXCEPT !.AutoMode = TRUE,
                             !.LastQuery = [f \in FeedIDs |->
                                 IF f \in FeedIDsOf(Feeds)
                                 THEN Ref(now - ai.Interval) ELSE ai.LastQuery[f]]]
    /\ timers' = IF ai.AutoMode THEN timers ELSE timers + 1
    /\ ops' = ops + 1
    /\ lastOp' = Call("handleToggleAIMode", Nil, Nil)
    /\ UNCHANGED <<metricsState, given, app, ctx, wire, incoming, chanClosed, readLoop,
                   waiting, teaMsgs, sending, queries>>

\* fmt.Sprintf("req-%d-%s", time.Now().UnixNano(), feedID), n standing for
\* the nanoseconds
requestID(n, f) == "req-" \o ToString(n) \o "-" \o f

\* sendAIQueryForFeed: the command it returns, if any: one that returns an
\* error AIResponseMsg, or one that calls SendLLMQuery on the client
sendAIQueryForFeed(a, f, req) ==
    IF ~wsClient THEN <<[cmd |-> "error", feed |-> f, req |-> req]>>
    ELSE IF a.Paused[f] THEN <<>>
    ELSE IF a.Prompts[f] = 0 THEN <<>>
    ELSE <<[cmd |-> "send", feed |-> f, req |-> req]>>

\* the assignments handleAITick and the enter key make for a new request
Requested(a, f, req, current) ==
    [a EXCEPT !.Loading[f] = TRUE,
              !.RequestID = IF current THEN req ELSE @,
              !.RequestFeedID = IF current THEN f ELSE @,
              !.ActiveRequests = Put(@, req, f),
              !.StartTimes[f] = Ref(now),
              !.FirstTokens[f] = NilRef,
              !.Responses[f] = <<>>,
              !.requests = @ + 1]

\* handleAITick's condition to query feed f
Due(a, f) ==
    /\ ~a.Paused[f]
    /\ ~a.Loading[f]
    /\ \/ a.LastQuery[f] = NilRef
       \/ now - a.LastQuery[f][1] >= a.Interval

\* handleAITick's loop over the subscriptions left: the AI state and the
\* commands at its end
RECURSIVE TickLoop(_, _, _)
TickLoop(a, subs, cmds) ==
    IF subs = <<>> THEN [ai |-> a, cmds |-> cmds]
    ELSE LET f == Head(subs)
             req == requestID(a.requests + 1, f)
             a1 == Requested([a EXCEPT !.LastQuery[f] = Ref(now)], f, req,
                             a.SelectedFeed = f)
         IN  IF Due(a, f)
             THEN TickLoop(a1, Tail(subs), cmds \o sendAIQueryForFeed(a1, f, req))
             ELSE TickLoop(a, Tail(subs), cmds)

\* the error messages of the commands cmds, which return at once
ErrorMsgs(cmds) ==
    LET errs == SelectSeq(cmds, LAMBDA c : c.cmd = "error")
    IN  [k \in DOMAIN errs |-> Msg("AIResponseMsg", errs[k].req, 0, TRUE)]

Sends(cmds) == SelectSeq(cmds, LAMBDA c : c.cmd = "send")

\* a tea.Tick command returns AITickMsg and Update calls handleAITick, which
\* starts the next tea.Tick command
handleAITick ==
    LET r == TickLoop(ai, ai.Subscriptions, <<>>)
    IN  /\ timers > 0
        /\ ai' = IF ai.AutoMode THEN r.ai ELSE ai
        /\ teaMsgs' = IF ai.AutoMode THEN teaMsgs \o ErrorMsgs(r.cmds) ELSE teaMsgs
        /\ sending' = IF ai.AutoMode THEN sending \o Sends(r.cmds) ELSE sending
        /\ waiting' = IF ai.AutoMode /\ wsClient THEN waiting + 1 ELSE waiting
        /\ ops' = ops + 1
        /\ lastOp' = Call("handleAITick", Nil, Nil)
        /\ UNCHANGED <<metricsState, given, app, ctx, wire, incoming, chanClosed, readLoop,
                       timers, queries>>

\* sendAIQuery: the command it returns
sendAIQuery(a) ==
    IF ~wsClient \/ a.SelectedFeed = ""
    THEN <<[cmd |-> "error", feed |-> a.SelectedFeed, req |-> a.RequestID]>>
    ELSE sendAIQueryForFeed(a, a.SelectedFeed, a.RequestID)

\* updateAIPrompt on the enter key, f being the selected feed of the list:
\* a manual query when f is subscribed and not paused
enterPrompt(f) ==
    LET subscribed == \E k \in DOMAIN ai.Subscriptions : ai.Subscriptions[k] = f
        req == "req-" \o ToString(ai.requests + 1)
        a1 == Requested([ai EXCEPT !.SelectedFeed = f], f, req, TRUE)
        asks == subscribed /\ ~ai.Paused[f]
    IN  /\ f \in FeedIDsOf(Feeds)
        /\ ai' = IF asks THEN a1 ELSE ai
        /\ teaMsgs' = IF asks THEN teaMsgs \o ErrorMsgs(sendAIQuery(a1)) ELSE teaMsgs
        /\ sending' = IF asks THEN sending \o Sends(sendAIQuery(a1)) ELSE sending
        /\ waiting' = IF asks /\ wsClient THEN waiting + 1 ELSE waiting
        /\ ops' = ops + 1
        /\ lastOp' = Call("updateAIPrompt", f, "enter")
        /\ UNCHANGED <<metricsState, given, app, ctx, wire, incoming, chanClosed, readLoop,
                       timers, queries>>

\* the command made by sendAIQueryForFeed runs: SendLLMQuery writes the query
\* to the server, or fails when the client's context is cancelled, and then
\* the command returns an error AIResponseMsg
SendLLMQuery ==
    /\ sending # <<>>
    /\ sending' = Tail(sending)
    /\ IF ctx = "open"
       THEN /\ queries' = Append(queries, Head(sending))
            /\ UNCHANGED teaMsgs
       ELSE /\ teaMsgs' = Append(teaMsgs, Msg("AIResponseMsg", Head(sending).req, 0, TRUE))
            /\ UNCHANGED queries
    /\ lastOp' = Call("SendLLMQuery", Head(sending).feed, Head(sending).req)
    /\ UNCHANGED <<metricsState, given, app, ai, ops, ctx, wire, incoming, chanClosed,
                   readLoop, waiting, timers>>

\* the server answers the oldest query it has: tokens 1..n and llm-complete
ServerAnswers(n) ==
    /\ queries # <<>>
    /\ ctx = "open"
    /\ queries' = Tail(queries)
    /\ wire' = wire \o [k \in 1..n |-> Env("llm-token", Head(queries).req, k, TRUE)]
                    \o <<Env("llm-complete", Head(queries).req, n, TRUE)>>
    /\ lastOp' = Call("ServerAnswers", Head(queries).feed, Head(queries).req)
    /\ UNCHANGED <<metricsState, given, app, ai, ops, ctx, incoming, chanClosed, readLoop,
                   waiting, teaMsgs, sending, timers>>

----
(* One client, one feed with a prompt, and the events after which Update    *)
(* returns a ListenCmd: the connection, a subscribe result, the enter key,  *)
(* an AI tick                                                               *)

MaxListenOps == 6
MaxTokens == 2

NextListen ==
    \/ ConnectWS
    \/ /\ ops < MaxListenOps
       /\ Feeds = <<>>
       /\ handleFeedsResult(SubSeq(AllFeeds, 1, 1))
       /\ UNCHANGED runtime
    \/ /\ ops < MaxListenOps
       /\ ai.Subscriptions = <<>>
       /\ handleSubsResult(<<"f1">>)
       /\ UNCHANGED runtime
    \/ /\ ops < MaxListenOps
       /\ ai.Prompts["f1"] = 0
       /\ updatePrompt("f1", 8)
       /\ UNCHANGED runtime
    \/ ops < MaxListenOps /\ enterPrompt("f1")
    \/ ops < MaxListenOps /\ ~ai.AutoMode /\ handleToggleAIMode
    \/ ops < MaxListenOps /\ handleAITick
    \/ /\ ops < MaxListenOps
       /\ handleSubscribeResult("subscribe", "f1")
       /\ waiting' = waiting + nextWSListen
       /\ UNCHANGED <<wire, incoming, chanClosed, readLoop, teaMsgs, sending, timers,
                      given, queries>>
    \/ SendLLMQuery
    \/ ServerAnswers(MaxTokens)
    \/ ReadEnvelope
    \/ ChanSend
    \/ Listen
    \/ UpdateWSConnected
    \/ UpdateAIToken
    \/ UpdateAIResponse

SpecListen == Init /\ [][NextListen]_vars

Increasing(s) == \A i, j \in DOMAIN s : i < j => s[i] < s[j]

\* C36: at any time at most one ListenCmd is pending for the client, and
\* Update is given the messages of the channel in the order in which
\* readLoop sent them, so the tokens of a request are appended in the order
\* of their arrival.
C36_MessagesInOrder ==
    /\ waiting <= 1
    /\ Increasing(given)
    /\ ai.requests = 1 => \A f \in FeedIDs : Increasing(ai.Responses[f])

----
(* Feed-data envelopes whose payload json.Unmarshal accepts, rejects before *)
(* it decodes anything (a syntax error), or rejects after it decoded feedId *)
(* (a field of the wrong type), read by either client of the repository    *)

MaxEnvelopes == 3

FeedDataEnvelopes ==
    {Env("feed-data", "f1", 3, TRUE), Env("feed-data", "f1", 0, FALSE),
     Env("feed-data", "", 0, FALSE)}

NextDropped ==
    \/ ConnectWS
    \/ dialWS
    \/ \E env \in FeedDataEnvelopes :
          /\ wire = <<>>
          /\ readLoop.sent < MaxEnvelopes
          /\ ServerWrites(env)
    \/ ReadEnvelope
    \/ readEnvelopeWS
    \/ ChanSend
    \/ Listen
    \/ UpdateWSConnected
    \/ UpdateFeedData
    \/ UpdatePacketDropped

SpecDropped == Init /\ [][NextDropped]_vars

\* C37: a feed-data envelope whose payload fails to parse gives a
\* PacketDroppedMsg with the empty feed ID, so handling it changes the drop
\* counters of no feed with a non-empty ID: MessagesDroppedTotal and
\* DropRatePercent of every such feed stay 0.
C37_DropsCountedForNoFeed ==
    /\ \A i \in DOMAIN teaMsgs :
          teaMsgs[i].kind = "PacketDroppedMsg" => teaMsgs[i].id = ""
    /\ \A f \in Known :
          f # "" => /\ feedMetrics[f].MessagesDroppedTotal = 0
                    /\ feedMetrics[f].DropRatePercent = F(0)

----
(* One client whose server keeps writing llm-token envelopes of a request   *)
(* the application does not know (handleAIToken ignores them), and the ways *)
(* the connection ends: the read fails, or a reconnect or a logout closes   *)
(* the client and drops it. A subscribe result, after which a second       *)
(* ListenCmd is pending, is handled when one ListenCmd is pending, no       *)
(* message waits for Update, and the channel is closed and holds at most    *)
(* the last status                                                          *)

MaxWrites == 33

Written == readLoop.sent + Len(wire) + (IF readLoop.pc = "send" THEN 1 ELSE 0)

NextClose ==
    \/ ConnectWS
    \/ /\ wire = <<>>
       /\ Written < MaxWrites
       /\ ServerWrites(Env("llm-token", "req-0", 1, TRUE))
    \/ ConnectionLost
    \/ /\ wsClient /\ waiting = 1 /\ teaMsgs = <<>>
       /\ chanClosed /\ Len(incoming) <= 1
       /\ handleSubscribeResult("subscribe", "f1")
       /\ waiting' = waiting + nextWSListen
       /\ UNCHANGED <<wire, incoming, chanClosed, readLoop, teaMsgs, sending, timers,
                      given, queries>>
    \/ wsClient /\ handleReconnect /\ UNCHANGED runtime
    \/ wsClient /\ handleLogout /\ UNCHANGED runtime
    \/ ReadEnvelope
    \/ ReadFails
    \/ ChanSend
    \/ Listen
    \/ ListenClosed
    \/ UpdateWSConnected
    \/ UpdateWSStatus
    \/ UpdateAIToken

\* every goroutine that can take a step is scheduled, and Update is given
\* every message a command returned; the server and the user are not obliged
\* to do anything
FairClose ==
    /\ WF_vars(ReadEnvelope)
    /\ WF_vars(ReadFails)
    /\ WF_vars(ChanSend)
    /\ WF_vars(Listen)
    /\ WF_vars(ListenClosed)
    /\ WF_vars(UpdateWSConnected)
    /\ WF_vars(UpdateWSStatus)
    /\ WF_vars(UpdateAIToken)

SpecClose == Init /\ [][NextClose]_vars /\ FairClose

\* C38: once the read fails or Close() has cancelled the client's context,
\* readLoop eventually sends its "disconnected" status, closes the incoming
\* channel and terminates, whether or not a ListenCmd still receives.
C38_ReadLoopTerminates ==
    (ctx = "done") ~> (readLoop.pc = "done" /\ chanClosed)

----
(* AI auto mode: one client, the subscribed feed f1 with or without a       *)
(* prompt, the AI ticks, and a server that answers every query with         *)
(* MaxTokens tokens and llm-complete                                        *)

MaxAutoOps == 10
MaxAutoRequests == 2
MaxAutoTicks == 1

NextAuto ==
    \/ ConnectWS
    \/ ticks < MaxAutoTicks /\ Tick(AIInterval)
    \/ /\ ops < MaxAutoOps
       /\ Feeds = <<>>
       /\ handleFeedsResult(SubSeq(AllFeeds, 1, 1))
       /\ UNCHANGED runtime
    \/ /\ ops < MaxAutoOps
       /\ ai.Subscriptions = <<>>
       /\ handleSubsResult(<<"f1">>)
       /\ UNCHANGED runtime
    \/ /\ ops < MaxAutoOps
       /\ ai.Prompts["f1"] = 0
       /\ updatePrompt("f1", 8)
       /\ UNCHANGED runtime
    \/ ops < MaxAutoOps /\ ~ai.AutoMode /\ handleToggleAIMode
    \/ ops < MaxAutoOps /\ ai.requests < MaxAutoRequests /\ handleAITick
    \/ SendLLMQuery
    \/ ServerAnswers(MaxTokens)
    \/ ReadEnvelope
    \/ ChanSend
    \/ Listen
    \/ UpdateWSConnected
    \/ UpdateAIToken
    \/ UpdateAIResponse

\* every command and goroutine that can take a step is scheduled, Update is
\* given every message, and the server answers every query it receives; the
\* user and the clock are not obliged to do anything
FairAuto ==
    /\ WF_vars(SendLLMQuery)
    /\ WF_vars(ServerAnswers(MaxTokens))
    /\ WF_vars(ReadEnvelope)
    /\ WF_vars(ChanSend)
    /\ WF_vars(Listen)
    /\ WF_vars(UpdateWSConnected)
    /\ WF_vars(UpdateAIToken)
    /\ WF_vars(UpdateAIResponse)

SpecAuto == Init /\ [][NextAuto]_vars /\ FairAuto

\* C39: in auto mode a feed that handleAITick marked as Loading is queried
\* or gets an error response, so with a server that answers every query its
\* Loading flag eventually becomes false again.
C39_LoadingEnds ==
    \A f \in FeedIDs : (ai.AutoMode /\ ai.Loading[f]) ~> ~ai.Loading[f]

====
